---- MODULE Spec2Model ----
(***************************************************************************)
(* State-machine model of the gzdec GZIP decompressor.                     *)
(*   src/src/gzdec.h  - the two-function variant (gzdecsize + gzdec into   *)
(*                      a caller-supplied region, file-scope tree arrays)  *)
(*   src/README.md    - the allocating variant (gzdec grows its own        *)
(*                      output with gz_emitb, trees are malloc'ed)         *)
(* Pointers into an array are modelled as C indices; a Huffman tree is the *)
(* sequence of the nodes taken so far from its array (node i is ht[i+1]),  *)
(* every other node of the array being all-zero after gz_memset; a child   *)
(* pointer of 0 is the NULL that gz_memset leaves (the root, node 0, is    *)
(* never a child).                                                         *)
(***************************************************************************)
EXTENDS Integers, Sequences, FiniteSets, TLC

(***************************************************************************)
(* Program constants                                                       *)
(***************************************************************************)
GZ_LL_MAX == 288
GZ_DIST_MAX == 32
GZ_CLEN_MAX == 19
GZ_BL_COUNT_MAX == 30
GZ_NXTCODE_MAX == GZ_BL_COUNT_MAX
GZ_TREE_MAX == GZ_LL_MAX
GZ_HTLL_MAX == GZ_LL_MAX * 2 - 1
GZ_HTDIST_MAX == GZ_DIST_MAX * 2 - 1
GZ_HTCLEN_MAX == GZ_CLEN_MAX * 2 - 1
MAXCLEN == GZ_CLEN_MAX
LLLEN == GZ_LL_MAX
DISTLEN == GZ_DIST_MAX

\* enum gz_result
GZ_OK == "GZ_OK"
GZ_INVMAGIC == "GZ_INVMAGIC"
GZ_INVCMETHOD == "GZ_INVCMETHOD"
GZ_INVFILE == "GZ_INVFILE"
GZ_NOSPACE == "GZ_NOSPACE"

\* the FLG masks
FHCRC == 2
FEXTRA == 4
FNAME == 8
FCOMMENT == 16

\* An unsigned int that may exceed 16 bits is kept as its two 16-bit halves
\* [hi, lo]
U32(n) == [hi |-> n \div 65536, lo |-> n % 65536]

ULess(a, b) == a.hi < b.hi \/ (a.hi = b.hi /\ a.lo < b.lo)

\* ~x of a 32-bit unsigned x
UNot(x) == [hi |-> 65535 - x.hi, lo |-> 65535 - x.lo]

\* -x of a 32-bit unsigned x
UNeg(x) ==
    IF x.lo = 0 THEN [hi |-> (65536 - x.hi) % 65536, lo |-> 0]
    ELSE [hi |-> 65535 - x.hi, lo |-> 65536 - x.lo]

Pow2(n) == 2 ^ n

\* the one element of a set of one element
The(S) == CHOOSE x \in S : TRUE

\* F applied to the value of e: the result of a call is held in a local, as
\* in the C code, and computed once however often F uses it
With(e, F(_)) == The({F(x) : x \in {e}})

\* (x & mask) != 0 for a one-bit mask
MaskSet(x, mask) == (x \div mask) % 2 = 1

(***************************************************************************)
(* Bit-stream reader.  A gz_bstream is [ptr, buf, mask, end]; src is index *)
(* 0 of the input sequence and srcend is its length.                       *)
(***************************************************************************)
\* gz_bstream ins = {0}; ins.mask = 1; ins.ptr = ins.src; ins.buf = *ins.ptr++
StreamInit(input) ==
    [ptr |-> 1, buf |-> input[1], mask |-> 1, end |-> 0]

\* gz_nextbit without its test of stream->end
gz_nextbit_noend(s, input) ==
    LET bit == IF (s.buf \div s.mask) % 2 = 1 THEN 1 ELSE 0
        m   == (s.mask * 2) % 256
    IN  IF m # 0 THEN [bit |-> bit, s |-> [s EXCEPT !.mask = m]]
        ELSE IF s.ptr < Len(input)
             THEN [bit |-> bit,
                   s |-> [s EXCEPT !.mask = 1, !.buf = input[s.ptr + 1],
                                   !.ptr = s.ptr + 1]]
             ELSE [bit |-> bit, s |-> [s EXCEPT !.mask = 1, !.end = 1]]

\* One call of gz_nextbit: [bit, s]
gz_nextbit(s, input) ==
    IF s.end # 0 THEN [bit |-> 0, s |-> s]
    ELSE LET bit == IF (s.buf \div s.mask) % 2 = 1 THEN 1 ELSE 0
             m   == (s.mask * 2) % 256
         IN  IF m # 0 THEN [bit |-> bit, s |-> [s EXCEPT !.mask = m]]
             ELSE IF s.ptr < Len(input)
                  THEN [bit |-> bit,
                        s |-> [s EXCEPT !.mask = 1, !.buf = input[s.ptr + 1],
                                        !.ptr = s.ptr + 1]]
                  ELSE [bit |-> bit, s |-> [s EXCEPT !.mask = 1, !.end = 1]]

RECURSIVE ReadBitsFrom(_, _, _, _, _)
\* the loop of gz_readbits from iteration i with bitsval accumulated so far
ReadBitsFrom(s, input, count, i, bitsval) ==
    IF i >= count THEN [v |-> bitsval, s |-> s]
    ELSE With(gz_nextbit(s, input), LAMBDA r :
         With(bitsval + r.bit * Pow2(i), LAMBDA v :
         ReadBitsFrom(r.s, input, count, i + 1, v)))

\* gz_readbits: [v, s]
gz_readbits(s, input, count) == ReadBitsFrom(s, input, count, 0, 0)

(***************************************************************************)
(* Huffman symbol reader                                                   *)
(***************************************************************************)
NullNode == [code |-> 0, zero |-> 0, one |-> 0]
NewNode == [code |-> -1, zero |-> 0, one |-> 0]

\* the node a pointer refers to: nodes never taken from the array are zero
NodeAt(ht, n) == IF n + 1 <= Len(ht) THEN ht[n + 1] ELSE NullNode

RECURSIVE HuffWalk(_, _, _, _, _)
\* the while loop of gz_huffdec standing at node n (isnull: n is NULL)
HuffWalk(s, input, ht, n, isnull) ==
    IF isnull \/ NodeAt(ht, n).code >= 0 THEN [v |-> -1, s |-> s]
    ELSE With(gz_readbits(s, input, 1), LAMBDA r :
         With(IF r.v # 0 THEN NodeAt(ht, n).one ELSE NodeAt(ht, n).zero, LAMBDA c :
         IF c # 0 /\ NodeAt(ht, c).code >= 0
         THEN [v |-> NodeAt(ht, c).code, s |-> r.s]
         ELSE HuffWalk(r.s, input, ht, c, c = 0)))

\* gz_huffdec: [v, s], v = -1 when no symbol is decoded
gz_huffdec(s, input, ht) == HuffWalk(s, input, ht, 0, FALSE)

(***************************************************************************)
(* Canonical Huffman tree builder.  A C loop over i = lo..hi is an         *)
(* operator XLoop(.., lo, hi, st) that runs the iterations lo..mid, then,  *)
(* unless the loop was left, mid+1..hi, on the loop's variables st; XStep  *)
(* is the loop body.                                                       *)
(***************************************************************************)
\* the body of the second loop of gz_torange; cl[i] is cl[i + 1] here and
\* ranges[j] is ranges[j + 1]; rcount = -1 once the function has returned -1
ToRangeStep(cl, rmax, st) ==
    LET i == st.i
        j == IF i > 0 /\ cl[i + 1] # cl[i] THEN st.j + 1 ELSE st.j
    IN  IF j >= rmax THEN [st EXCEPT !.rcount = -1]
        ELSE [i |-> i + 1, j |-> j, rcount |-> j + 1,
              ranges |-> [st.ranges EXCEPT ![j + 1] = [end |-> i, blen |-> cl[i + 1]]]]

RECURSIVE ToRangeLoop(_, _, _, _, _)
ToRangeLoop(cl, rmax, lo, hi, st) ==
    IF lo = hi THEN ToRangeStep(cl, rmax, st)
    ELSE With((lo + hi) \div 2, LAMBDA mid :
         With(ToRangeLoop(cl, rmax, lo, mid, st), LAMBDA left :
         IF left.rcount < 0 THEN left
         ELSE ToRangeLoop(cl, rmax, mid + 1, hi, left)))

\* gz_torange: [rcount, ranges]
gz_torange(cl, count, rmax) ==
    With([i |-> 0, j |-> 0, rcount |-> 1,
          ranges |-> [j \in 1..rmax |-> [end |-> 0, blen |-> 0]]], LAMBDA st :
    With(IF count = 0 THEN st ELSE ToRangeLoop(cl, rmax, 0, count - 1, st), LAMBDA r :
    [rcount |-> r.rcount, ranges |-> r.ranges]))

\* the maxblen loop of gz_buildht: the largest blen of range[0..rcount-1]
MaxBlen(range, rcount) ==
    With({0} \cup {range[i].blen : i \in 1..rcount}, LAMBDA S :
    CHOOSE m \in S : \A x \in S : x <= m)

RECURSIVE BlCountSum(_, _, _, _)
\* what the blcount loop of gz_buildht adds to blcount[b] in its iterations
\* lo..hi: range[i].end - ((i > 0) ? range[i-1].end : -1) where blen is b
BlCountSum(range, b, lo, hi) ==
    IF lo = hi
    THEN (IF range[lo + 1].blen = b
          THEN range[lo + 1].end - (IF lo > 0 THEN range[lo].end ELSE -1)
          ELSE 0)
    ELSE LET mid == (lo + hi) \div 2
         IN  BlCountSum(range, b, lo, mid) + BlCountSum(range, b, mid + 1, hi)

\* gz_blcount_ after the blcount loop (zeroed by gz_memset before it)
BlCount(range, rcount, maxblen) ==
    [b \in 0..maxblen |-> BlCountSum(range, b, 0, rcount - 1)]

RECURSIVE NxtCodeLoop_noshift(_, _, _, _, _)
\* the nxtcode loop without its shift: code = code + blcount[bits-1]
NxtCodeLoop_noshift(blcount, maxblen, bits, code, nxtcode) ==
    IF bits > maxblen THEN nxtcode
    ELSE With(code + blcount[bits - 1], LAMBDA c :
         With(IF blcount[bits] # 0 THEN [nxtcode EXCEPT ![bits] = c] ELSE nxtcode,
              LAMBDA nxt :
         NxtCodeLoop_noshift(blcount, maxblen, bits + 1, c, nxt)))

RECURSIVE NxtCodeLoop(_, _, _, _, _)
\* the nxtcode loop of gz_buildht
NxtCodeLoop(blcount, maxblen, bits, code, nxtcode) ==
    IF bits > maxblen THEN nxtcode
    ELSE With((code + blcount[bits - 1]) * 2, LAMBDA c :
         With(IF blcount[bits] # 0 THEN [nxtcode EXCEPT ![bits] = c] ELSE nxtcode,
              LAMBDA nxt :
         NxtCodeLoop(blcount, maxblen, bits + 1, c, nxt)))

\* the body of the loop of gz_buildht that gives each symbol its
\* (blen, code); tree[i] is tree[i + 1] here
TreeStep(range, st) ==
    LET i == st.i
        a == IF i > range[st.actrange + 1].end THEN st.actrange + 1 ELSE st.actrange
        b == range[a + 1].blen
    IN  IF b # 0
        THEN [i |-> i + 1, actrange |-> a,
              nxtcode |-> [st.nxtcode EXCEPT ![b] = @ + 1],
              tree |-> [st.tree EXCEPT ![i + 1] = [blen |-> b, code |-> st.nxtcode[b]]]]
        ELSE [st EXCEPT !.i = i + 1, !.actrange = a]

RECURSIVE TreeLoop(_, _, _, _)
TreeLoop(range, lo, hi, st) ==
    IF lo = hi THEN TreeStep(range, st)
    ELSE With((lo + hi) \div 2, LAMBDA mid :
         With(TreeLoop(range, lo, mid, st), LAMBDA left :
         IF left.i > hi THEN left
         ELSE TreeLoop(range, mid + 1, hi, left)))

\* the (blen, code) table gz_buildht computes in gz_tree_ for cl[0..count-1]
CodeTable(cl, count) ==
    With(gz_torange(cl, count, count), LAMBDA tr :
    With(MaxBlen(tr.ranges, tr.rcount), LAMBDA maxblen :
    With(tr.ranges[tr.rcount].end, LAMBDA last :
    With(BlCount(tr.ranges, tr.rcount, maxblen), LAMBDA blcount :
    With(NxtCodeLoop(blcount, maxblen, 1, 0, [b \in 0..maxblen |-> 0]), LAMBDA nxtcode :
    With([i |-> 0, actrange |-> 0, nxtcode |-> nxtcode,
          tree |-> [i \in 1..(last + 1) |-> [blen |-> 0, code |-> 0]]], LAMBDA st :
    [maxblen |-> maxblen, last |-> last,
     tree |-> TreeLoop(tr.ranges, 0, last, st).tree]))))))

\* a turn of the inner for loop without the tests of huffcount against htmax
InsertBitStep_unchecked(st, htmax, code, bit) ==
    LET isone == (code \div Pow2(bit)) % 2 = 1
        child == IF isone THEN st.ht[st.node + 1].one ELSE st.ht[st.node + 1].zero
    IN  IF child # 0 THEN [st EXCEPT !.node = child]
        ELSE With(Len(st.ht), LAMBDA new :
             [ok |-> TRUE, node |-> new,
              ht |-> IF isone
                     THEN [Append(st.ht, NewNode) EXCEPT ![st.node + 1].one = new]
                     ELSE [Append(st.ht, NewNode) EXCEPT ![st.node + 1].zero = new]])

\* one turn of the inner for loop of the tree construction, at bit `bit` of
\* code (bit = bits - 1): st = [ok, ht, node], ok = FALSE once gz_buildht
\* has returned 0 for want of a node
InsertBitStep(st, htmax, code, bit) ==
    LET isone == (code \div Pow2(bit)) % 2 = 1
        child == IF isone THEN st.ht[st.node + 1].one ELSE st.ht[st.node + 1].zero
    IN  IF child # 0 THEN [st EXCEPT !.node = child]
        ELSE IF Len(st.ht) >= htmax THEN [st EXCEPT !.ok = FALSE]
        ELSE With(Len(st.ht), LAMBDA new :
             [ok |-> TRUE, node |-> new,
              ht |-> IF isone
                     THEN [Append(st.ht, NewNode) EXCEPT ![st.node + 1].one = new]
                     ELSE [Append(st.ht, NewNode) EXCEPT ![st.node + 1].zero = new]])

RECURSIVE InsertBitsLoop(_, _, _, _, _)
\* the turns of the inner for loop at the bits hi down to lo of code
InsertBitsLoop(st, htmax, code, hi, lo) ==
    IF hi = lo THEN InsertBitStep(st, htmax, code, hi)
    ELSE With((lo + hi + 1) \div 2, LAMBDA mid :
         With(InsertBitsLoop(st, htmax, code, hi, mid), LAMBDA left :
         IF ~left.ok THEN left
         ELSE InsertBitsLoop(left, htmax, code, mid - 1, lo)))

\* the inner for loop of the tree construction: descends from `node` along
\* the low `bits` bits of code, most significant first, taking nodes from
\* the array on demand.  [ok, ht, node]
InsertBits(ht, htmax, node, code, bits) ==
    IF bits <= 0 THEN [ok |-> TRUE, ht |-> ht, node |-> node]
    ELSE InsertBitsLoop([ok |-> TRUE, ht |-> ht, node |-> node], htmax, code,
                        bits - 1, 0)

\* the body of the outer for loop of the tree construction for symbol i:
\* [ok, ht], ok = FALSE once gz_buildht has returned 0
InsertStep(tree, i, st, htmax) ==
    IF tree[i + 1].blen = 0 THEN st
    ELSE With(InsertBits(st.ht, htmax, 0, tree[i + 1].code, tree[i + 1].blen),
              LAMBDA r :
         IF ~r.ok THEN [ok |-> FALSE, ht |-> r.ht]
         ELSE IF r.ht[r.node + 1].code # -1 THEN [ok |-> FALSE, ht |-> r.ht]
         ELSE [ok |-> TRUE, ht |-> [r.ht EXCEPT ![r.node + 1].code = i]])

RECURSIVE InsertLoop(_, _, _, _, _)
InsertLoop(tree, lo, hi, st, htmax) ==
    IF lo = hi THEN InsertStep(tree, lo, st, htmax)
    ELSE With((lo + hi) \div 2, LAMBDA mid :
         With(InsertLoop(tree, lo, mid, st, htmax), LAMBDA left :
         IF ~left.ok THEN left
         ELSE InsertLoop(tree, mid + 1, hi, left, htmax)))

\* gz_buildht of the two-function variant on the array currently holding
\* `ht`: [ok, ht], ht being the array's content when the call returns
gz_buildht(cl, count, ht, htmax) ==
    IF count > GZ_LL_MAX THEN [ok |-> FALSE, ht |-> ht]
    ELSE With(CodeTable(cl, count), LAMBDA t :
         IF t.maxblen + 1 > GZ_BL_COUNT_MAX THEN [ok |-> FALSE, ht |-> ht]
         ELSE IF t.maxblen + 1 > GZ_NXTCODE_MAX THEN [ok |-> FALSE, ht |-> ht]
         ELSE IF t.last + 1 > GZ_TREE_MAX THEN [ok |-> FALSE, ht |-> ht]
         ELSE InsertLoop(t.tree, 0, t.last, [ok |-> TRUE, ht |-> <<NewNode>>], htmax))

(***************************************************************************)
(* Dynamic tables: the code-length sub-protocol                            *)
(***************************************************************************)
\* while(rep > 0) lengths[i++] = val: the stores at i .. i + rep - 1.  A
\* store at an index >= maxcount lies outside the array and is no code
\* length
RepStore(lengths, maxcount, i, val, rep) ==
    [k \in 1..maxcount |-> IF i < k /\ k <= i + rep THEN val ELSE lengths[k]]

\* the body of the while(i < count) loop of gz_gethufft: [ok, lengths, s, i],
\* ok = FALSE once gz_gethufft has returned 0
GetLengthsStep(input, st, maxcount, htclen) ==
    With(gz_huffdec(st.s, input, htclen), LAMBDA d :
    LET sym == d.v
        i == st.i
    IN  IF sym < 0 \/ sym > 18 THEN [st EXCEPT !.ok = FALSE, !.s = d.s]
        ELSE IF sym = 16 /\ i = 0 THEN [st EXCEPT !.ok = FALSE, !.s = d.s]
        ELSE With(IF sym <= 15 THEN [v |-> 0, s |-> d.s]
                  ELSE IF sym = 16 THEN gz_readbits(d.s, input, 2)
                  ELSE IF sym = 17 THEN gz_readbits(d.s, input, 3)
                  ELSE gz_readbits(d.s, input, 7), LAMBDA x :
             With(IF sym <= 15 THEN sym
                  ELSE IF sym = 16 THEN st.lengths[i] ELSE 0, LAMBDA val :
             With(IF sym <= 15 THEN 1
                  ELSE IF sym = 18 THEN 11 + x.v ELSE 3 + x.v, LAMBDA rep :
             [ok |-> TRUE, s |-> x.s, i |-> i + rep,
              lengths |-> RepStore(st.lengths, maxcount, i, val, rep)]))))

RECURSIVE GetLengthsLoop(_, _, _, _, _, _, _)
\* the iterations lo..hi of the while loop (at most count of them, each
\* storing at least one length)
GetLengthsLoop(input, st, count, maxcount, htclen, lo, hi) ==
    IF ~st.ok \/ st.i >= count THEN st
    ELSE IF lo = hi THEN GetLengthsStep(input, st, maxcount, htclen)
    ELSE With((lo + hi) \div 2, LAMBDA mid :
         With(GetLengthsLoop(input, st, count, maxcount, htclen, lo, mid),
              LAMBDA left :
         IF ~left.ok \/ left.i >= count THEN left
         ELSE GetLengthsLoop(input, left, count, maxcount, htclen, mid + 1, hi)))

\* what gz_gethufft leaves behind once gz_buildht has returned b
GetHufftResult(g, b) ==
    [ok |-> b.ok, lengths |-> g.lengths, s |-> g.s, ht |-> b.ht, i |-> g.i]

\* the end of gz_gethufft, g being the state the while loop has left: the
\* test i != count and the call of gz_buildht
GetHufftBuild(g, count, maxcount, ht, htmax) ==
    IF ~g.ok \/ g.i # count
    THEN GetHufftResult(g, [ok |-> FALSE, ht |-> ht])
    ELSE With(gz_buildht(g.lengths, maxcount, ht, htmax), LAMBDA b :
         GetHufftResult(g, b))

\* gz_gethufft of the two-function variant: [ok, lengths, s, ht, i]
gz_gethufft(s, input, count, maxcount, htclen, ht, htmax) ==
    With([ok |-> TRUE, s |-> s, i |-> 0, lengths |-> [k \in 1..maxcount |-> 0]],
         LAMBDA st :
    With(GetLengthsLoop(input, st, count, maxcount, htclen, 1, count), LAMBDA g :
    GetHufftBuild(g, count, maxcount, ht, htmax)))

(***************************************************************************)
(* Length and distance codes                                               *)
(***************************************************************************)
gz_lentable ==
    <<11, 13, 15, 17, 19, 23, 27, 31, 35, 43, 51, 59, 67, 83,
      99, 115, 131, 163, 195, 227>>

\* gz_getlen: [v, s]
gz_getlen(code, s, input) ==
    IF code < 257 \/ code > 285 THEN [v |-> -1, s |-> s]
    ELSE IF code = 285 THEN [v |-> 258, s |-> s]
    ELSE IF code < 265 THEN [v |-> code - 254, s |-> s]
    ELSE With(gz_readbits(s, input, (code - 261) \div 4), LAMBDA r :
         [v |-> r.v + gz_lentable[code - 265 + 1], s |-> r.s])

gz_disttable ==
    <<4, 6, 8, 12, 16, 24, 32, 48, 64, 96, 128, 192, 256, 384,
      512, 768, 1024, 1536, 2048, 3072, 4096, 6144, 8192,
      12288, 16384, 24576>>

\* gz_getdist: [v, s]
gz_getdist(code, s, input) ==
    IF code < 0 \/ code > 29 THEN [v |-> -1, s |-> s]
    ELSE IF code < 4 THEN [v |-> code + 1, s |-> s]
    ELSE With(gz_readbits(s, input, (code - 2) \div 2), LAMBDA r :
         [v |-> r.v + gz_disttable[code - 4 + 1] + 1, s |-> r.s])

\* unsigned int gzdecsize(void *in, unsigned int insize)
gzdecsize(input) ==
    IF Len(input) < 18 THEN U32(0)
    ELSE LET n == Len(input)
         IN  [lo |-> input[n - 3] + input[n - 2] * Pow2(8),
              hi |-> input[n - 1] + input[n] * Pow2(8)]

(***************************************************************************)
(* GZIP framer: the header fields before the first DEFLATE block           *)
(***************************************************************************)
RECURSIVE SkipLoop(_, _, _, _)
\* for(i = 0; i < xlen; ++i) gz_readbits(&ins, 8): the iterations lo..hi.
\* Once the stream has ended a read leaves it as it is.
SkipLoop(s, input, lo, hi) ==
    IF s.end # 0 THEN s
    ELSE IF lo = hi THEN gz_readbits(s, input, 8).s
    ELSE With((lo + hi) \div 2, LAMBDA mid :
         With(SkipLoop(s, input, lo, mid), LAMBDA left :
         IF left.end # 0 THEN left
         ELSE SkipLoop(left, input, mid + 1, hi)))

RECURSIVE ZStringLoop(_, _, _, _)
\* i = gz_readbits(&ins, 8); while(i) i = gz_readbits(&ins, 8): the reads
\* lo..hi, r = [v, s] being the last one
ZStringLoop(r, input, lo, hi) ==
    IF r.v = 0 THEN r
    ELSE IF lo = hi THEN gz_readbits(r.s, input, 8)
    ELSE With((lo + hi) \div 2, LAMBDA mid :
         With(ZStringLoop(r, input, lo, mid), LAMBDA left :
         IF left.v = 0 THEN left
         ELSE ZStringLoop(left, input, mid + 1, hi)))

\* a zero-terminated field: a read past the end of the input yields 0, so
\* there are at most Len(input) + 1 reads
SkipZString(s, input) ==
    ZStringLoop([v |-> 1, s |-> s], input, 0, Len(input)).s

\* FHCRC: the 16 bits of the header CRC are read and dropped
HeaderCrc(flags, s, input) ==
    [status |-> "",
     s |-> IF MaskSet(flags, FHCRC) THEN gz_readbits(s, input, 16).s ELSE s]

\* FCOMMENT
HeaderComment(flags, s, input) ==
    With(IF MaskSet(flags, FCOMMENT) THEN SkipZString(s, input) ELSE s, LAMBDA s1 :
    HeaderCrc(flags, s1, input))

\* FNAME
HeaderName(flags, s, input) ==
    With(IF MaskSet(flags, FNAME) THEN SkipZString(s, input) ELSE s, LAMBDA s1 :
    HeaderComment(flags, s1, input))

\* while(xlen) { gz_readbits(&ins, 8); --xlen; }, xlen = [v, s] as read
SkipExtra(xlen, input) ==
    IF xlen.v = 0 THEN xlen.s ELSE SkipLoop(xlen.s, input, 1, xlen.v)

\* FEXTRA, s being the stream after MTIME, XFL and OS
HeaderExtra(flags, s, input) ==
    With(IF MaskSet(flags, FEXTRA)
         THEN With(gz_readbits(s, input, 16), LAMBDA xlen : SkipExtra(xlen, input))
         ELSE s, LAMBDA s1 :
    HeaderName(flags, s1, input))

\* FLG and the six bytes of MTIME, XFL and OS, flags = [v, s] as read
HeaderFlags(flags, input) ==
    With(SkipLoop(flags.s, input, 1, 6), LAMBDA s : HeaderExtra(flags.v, s, input))

\* CM, cm = [v, s] as read
HeaderMethod(cm, input) ==
    IF cm.v # 8 THEN [status |-> GZ_INVCMETHOD, s |-> cm.s]
    ELSE With(gz_readbits(cm.s, input, 8), LAMBDA flags : HeaderFlags(flags, input))

\* the two magic bytes, each [v, s] as read
HeaderMagic(magic0, magic1, input) ==
    IF magic0.v # 31 \/ magic1.v # 139 THEN [status |-> GZ_INVMAGIC, s |-> magic1.s]
    ELSE With(gz_readbits(magic1.s, input, 8), LAMBDA cm : HeaderMethod(cm, input))

HeaderMagic0(magic0, input) ==
    With(gz_readbits(magic0.s, input, 8), LAMBDA magic1 :
    HeaderMagic(magic0, magic1, input))

\* gzdec from the magic bytes to the first block: [status, s], status = ""
\* when the header is accepted
ParseHeader(s0, input) ==
    With(gz_readbits(s0, input, 8), LAMBDA magic0 : HeaderMagic0(magic0, input))

(***************************************************************************)
(* Output of the two-function variant: `out` holds the bytes stored so far *)
(* (outp - out = Len(out)), outsize is the size of the caller's region     *)
(***************************************************************************)
\* EMIT without its test of outp against outend
EMIT_unchecked(out, outsize, b) == [ok |-> TRUE, out |-> Append(out, b % 256)]

\* the EMIT macro: [ok, out], ok = FALSE when gzdec returns GZ_INVFILE
EMIT(out, outsize, b) ==
    IF Len(out) >= outsize THEN [ok |-> FALSE, out |-> out]
    ELSE [ok |-> TRUE, out |-> Append(out, b % 256)]

\* the byte at offset k of the output region; what lies before the region
\* is memory of the caller's process, junk here
ByteAt(out, k, junk) == IF k >= 0 THEN out[k + 1] ELSE junk

RECURSIVE CopyLoop(_, _, _, _, _, _)
\* while(len > 0) { EMIT(*backp); ++backp; len -= 1; }: the iterations
\* lo..hi, st = [ok, out], backp0 the offset backp starts at
CopyLoop(st, outsize, backp0, junk, lo, hi) ==
    IF ~st.ok THEN st
    ELSE IF lo = hi THEN EMIT(st.out, outsize, ByteAt(st.out, backp0 + lo, junk))
    ELSE With((lo + hi) \div 2, LAMBDA mid :
         With(CopyLoop(st, outsize, backp0, junk, lo, mid), LAMBDA left :
         IF ~left.ok THEN left
         ELSE CopyLoop(left, outsize, backp0, junk, mid + 1, hi)))

\* EMIT(gz_readbits(&ins, 8)) once outp < outend, r = [v, s] as read
StoredByte(out, outsize, r) ==
    [ok |-> TRUE, out |-> EMIT(out, outsize, r.v).out, s |-> r.s]

RECURSIVE StoredLoop(_, _, _, _, _)
\* while(b0len > 0) { EMIT(gz_readbits(&ins, 8)); --b0len; }: the
\* iterations lo..hi, st = [ok, out, s]
StoredLoop(st, input, outsize, lo, hi) ==
    IF ~st.ok THEN st
    ELSE IF lo = hi
    THEN IF Len(st.out) >= outsize THEN [st EXCEPT !.ok = FALSE]
         ELSE With(gz_readbits(st.s, input, 8), LAMBDA r :
              StoredByte(st.out, outsize, r))
    ELSE With((lo + hi) \div 2, LAMBDA mid :
         With(StoredLoop(st, input, outsize, lo, mid), LAMBDA left :
         IF ~left.ok THEN left
         ELSE StoredLoop(left, input, outsize, mid + 1, hi)))

\* the fixed code lengths of BTYPE = 1
FixedLL ==
    [i \in 1..LLLEN |-> IF i - 1 <= 143 THEN 8 ELSE IF i - 1 <= 255 THEN 9
                        ELSE IF i - 1 <= 279 THEN 7 ELSE 8]

FixedDist == [i \in 1..DISTLEN |-> 5]

clenord == <<16, 17, 18, 0, 8, 7, 9, 6, 10, 5, 11, 4, 12, 3, 13, 2, 14, 1, 15>>

\* the body of for(i = 0; i < hclen + 4; ++i)
\*     arrclen[clenord[i]] = gz_readbits(&ins, 3);   st = [i, arrclen, s]
ReadCLenStep(st, input) ==
    With(gz_readbits(st.s, input, 3), LAMBDA r :
    [i |-> st.i + 1, s |-> r.s,
     arrclen |-> [st.arrclen EXCEPT ![clenord[st.i + 1] + 1] = r.v]])

RECURSIVE ReadCLenLoop(_, _, _, _)
ReadCLenLoop(st, input, lo, hi) ==
    IF lo = hi THEN ReadCLenStep(st, input)
    ELSE With((lo + hi) \div 2, LAMBDA mid :
         With(ReadCLenLoop(st, input, lo, mid), LAMBDA left :
         IF left.i > hi THEN left
         ELSE ReadCLenLoop(left, input, mid + 1, hi)))

(***************************************************************************)
(* Inputs.  A GZIP member (RFC 1952) is assembled from a plan: a sequence  *)
(* of DEFLATE blocks (RFC 1951), each a block type and its tokens, a token *)
(* being a literal [lit] or a back-reference [len, dist].                  *)
(***************************************************************************)
\* bounds of the inputs
MaxLen == 2
MaxOut == 5

\* payload bytes: one with an 8-bit and one with a 9-bit fixed code
PayloadBytes == {97, 200}

RECURSIVE Bits(_, _)
\* the n low bits of v, least significant first (a DEFLATE data element)
Bits(v, n) == IF n = 0 THEN <<>> ELSE <<v % 2>> \o Bits(v \div 2, n - 1)

RECURSIVE Code(_, _)
\* the n-bit Huffman code v, most significant bit first
Code(v, n) == IF n = 0 THEN <<>> ELSE Code(v \div 2, n - 1) \o <<v % 2>>

\* bytes of a bit sequence: bit k of the stream is bit (k mod 8) of byte
\* (k div 8); the last byte is padded with zero bits
Pack(bits) ==
    LET B(k) == IF k <= Len(bits) THEN bits[k] ELSE 0
    IN  [n \in 1..((Len(bits) + 7) \div 8) |->
            B(8 * n - 7) + 2 * B(8 * n - 6) + 4 * B(8 * n - 5) + 8 * B(8 * n - 4)
            + 16 * B(8 * n - 3) + 32 * B(8 * n - 2) + 64 * B(8 * n - 1)
            + 128 * B(8 * n)]

RECURSIVE Flatten(_)
Flatten(ss) == IF Len(ss) = 0 THEN <<>> ELSE Head(ss) \o Flatten(Tail(ss))

\* the bytes of v as an n-byte little-endian integer
RECURSIVE LE(_, _)
LE(v, n) == IF n = 0 THEN <<>> ELSE <<v % 256>> \o LE(v \div 256, n - 1)

\* RFC 1951 3.2.6: the fixed literal/length and distance codes
FixedLLCode(sym) ==
    IF sym <= 143 THEN Code(48 + sym, 8)
    ELSE IF sym <= 255 THEN Code(400 + (sym - 144), 9)
    ELSE IF sym <= 279 THEN Code(sym - 256, 7)
    ELSE Code(192 + (sym - 280), 8)

FixedDistCode(sym) == Code(sym, 5)

\* The dynamic tables of the inputs: literals 97 and 200, end-of-block 256
\* and length symbol 257 have 2-bit codes 00, 01, 10, 11; distance symbols
\* 0 and 1 have the 1-bit codes 0 and 1.  The code-length code gives
\* symbol 18 the code 0, symbol 1 the code 10 and symbol 2 the code 11.
DynLLCode(sym) ==
    IF sym = 97 THEN <<0, 0>> ELSE IF sym = 200 THEN <<0, 1>>
    ELSE IF sym = 256 THEN <<1, 0>> ELSE <<1, 1>>

DynDistCode(sym) == <<sym>>

\* code-length symbol 18 repeating 0 n times, 11 <= n <= 138
Zeros(n) == <<0>> \o Bits(n - 11, 7)

\* HLIT = 1, HDIST = 1, HCLEN = 14 and the code lengths of the code-length
\* alphabet in the order 16 17 18 0 8 7 9 6 10 5 11 4 12 3 13 2 14 1, then
\* the 258 + 2 code lengths
DynHeader ==
    Bits(1, 5) \o Bits(1, 5) \o Bits(14, 4)
    \o Flatten([k \in 1..18 |->
           Bits(IF k = 3 THEN 1 ELSE IF k \in {16, 18} THEN 2 ELSE 0, 3)])
    \o Zeros(97) \o <<1, 1>> \o Zeros(102) \o <<1, 1>> \o Zeros(55)
    \o <<1, 1>> \o <<1, 1>> \o <<1, 0>> \o <<1, 0>>

\* A second set of dynamic tables, with a shorter code-length vector: HLIT
\* = 0, HDIST = 0, HCLEN = 1, the code-length symbols 18, 0 and 8 having the
\* codes 0, 10 and 11; the literals 0..254 and end-of-block have 8-bit codes
\* (code length 8, literal 255 and the one distance symbol code length 0).
Dyn8LLCode(sym) == Code(IF sym = 256 THEN 255 ELSE sym, 8)

Dyn8Header ==
    Bits(0, 5) \o Bits(0, 5) \o Bits(1, 4)
    \o Bits(0, 3) \o Bits(0, 3) \o Bits(1, 3) \o Bits(2, 3) \o Bits(2, 3)
    \o [k \in 1..516 |-> IF k % 2 = 1 THEN 1
                         ELSE IF k \div 2 \in {256, 258} THEN 0 ELSE 1]

IsLit(tok) == "lit" \in DOMAIN tok

\* a token in a Huffman block: lengths 3..10 and distances 1..4 have no
\* extra bits
TokenBits(tok, dyn) ==
    IF IsLit(tok) THEN (IF dyn THEN DynLLCode(tok.lit) ELSE FixedLLCode(tok.lit))
    ELSE IF dyn THEN DynLLCode(254 + tok.len) \o DynDistCode(tok.dist - 1)
    ELSE FixedLLCode(254 + tok.len) \o FixedDistCode(tok.dist - 1)

\* the bits of one block appended to the `sofar` bits of the stream
BlockBits(sofar, blk, bfinal) ==
    IF blk.type = "stored"
    THEN LET hd == sofar \o <<bfinal, 0, 0>>
             pad == [k \in 1..((8 - (Len(hd) % 8)) % 8) |-> 0]
             n == Len(blk.toks)
         IN  hd \o pad \o Bits(n, 16) \o Bits(65535 - n, 16)
             \o Flatten([k \in 1..n |-> Bits(blk.toks[k].lit, 8)])
    ELSE IF blk.type = "dynamic8"
    THEN sofar \o <<bfinal, 0, 1>> \o Dyn8Header
         \o Flatten([k \in 1..Len(blk.toks) |-> Dyn8LLCode(blk.toks[k].lit)])
         \o Dyn8LLCode(256)
    ELSE LET dyn == blk.type = "dynamic"
         IN  sofar \o <<bfinal>> \o (IF dyn THEN <<0, 1>> \o DynHeader ELSE <<1, 0>>)
             \o Flatten([k \in 1..Len(blk.toks) |-> TokenBits(blk.toks[k], dyn)])
             \o (IF dyn THEN DynLLCode(256) ELSE FixedLLCode(256))

RECURSIVE PlanBits(_, _, _)
PlanBits(sofar, plan, k) ==
    IF k > Len(plan) THEN sofar
    ELSE PlanBits(BlockBits(sofar, plan[k], IF k = Len(plan) THEN 1 ELSE 0),
                  plan, k + 1)

\* the DEFLATE stream of a plan
Deflate(plan) == Pack(PlanBits(<<>>, plan, 1))

RECURSIVE CopyBack(_, _, _)
\* x extended by n bytes, each the byte dist positions before it
CopyBack(x, dist, n) ==
    IF n = 0 \/ dist > Len(x) THEN x
    ELSE CopyBack(Append(x, x[Len(x) + 1 - dist]), dist, n - 1)

RECURSIVE Expand(_, _, _)
\* the bytes a token sequence stands for, appended to x (a back-reference
\* reaching before the start stands for nothing)
Expand(x, toks, k) ==
    IF k > Len(toks) THEN x
    ELSE IF IsLit(toks[k]) THEN Expand(Append(x, toks[k].lit), toks, k + 1)
    ELSE Expand(CopyBack(x, toks[k].dist, toks[k].len), toks, k + 1)

\* the byte sequence a plan encodes
Payload(plan) == Expand(<<>>, Flatten([k \in 1..Len(plan) |-> plan[k].toks]), 1)

RECURSIVE Xor(_, _, _)
\* bitwise exclusive or of two n-bit values
Xor(a, b, n) ==
    IF n = 0 THEN 0 ELSE ((a + b) % 2) + 2 * Xor(a \div 2, b \div 2, n - 1)

RECURSIVE CrcShift(_, _)
\* n steps of the CRC-32 register c = [hi, lo] (polynomial 0xEDB88320)
CrcShift(c, n) ==
    IF n = 0 THEN c
    ELSE LET sh == [hi |-> c.hi \div 2, lo |-> (c.lo \div 2) + 32768 * (c.hi % 2)]
         IN  CrcShift(IF c.lo % 2 = 1
                      THEN [hi |-> Xor(sh.hi, 60856, 16), lo |-> Xor(sh.lo, 33568, 16)]
                      ELSE sh, n - 1)

RECURSIVE CrcUpdate(_, _, _)
CrcUpdate(c, x, k) ==
    IF k > Len(x) \/ c.lo < 0 THEN c
    ELSE CrcUpdate(CrcShift([c EXCEPT !.lo = Xor(c.lo, x[k], 16)], 8), x, k + 1)

\* RFC 1952 section 8: the CRC-32 of a byte sequence, as 4 little-endian bytes
Crc32(x) ==
    LET c == UNot(CrcUpdate([hi |-> 65535, lo |-> 65535], x, 1))
    IN  LE(c.lo, 2) \o LE(c.hi, 2)

\* ID1 ID2 CM FLG MTIME(4) XFL OS, then the optional fields FLG announces:
\* with opt, FEXTRA (XLEN = 2), FNAME, FCOMMENT and FHCRC (the two low bytes
\* of the CRC-32 of the header before it) are all present
MemberHeader(opt) ==
    IF opt
    THEN LET h == <<31, 139, 8, FHCRC + FEXTRA + FNAME + FCOMMENT, 0, 0, 0, 0, 0, 3>>
                  \o <<2, 0, 65, 66>> \o <<110, 0>> \o <<99, 0>>
         IN  h \o SubSeq(Crc32(h), 1, 2)
    ELSE <<31, 139, 8, 0, 0, 0, 0, 0, 0, 3>>

\* the member: header, DEFLATE stream, CRC32 and ISIZE of the payload
Member(plan, opt, isize) ==
    MemberHeader(opt) \o Deflate(plan) \o Crc32(Payload(plan)) \o LE(isize, 4)

\* the member g with its ISIZE field replaced
WithIsize(g, isize) == SubSeq(g, 1, Len(g) - 4) \o LE(isize, 4)

\* each literal of x as a token
Lits(x) == [k \in 1..Len(x) |-> [lit |-> x[k]]]

Match(len, dist) == [len |-> len, dist |-> dist]

Block(type, toks) == [type |-> type, toks |-> toks]

BlockTypes == {"stored", "fixed", "dynamic"}

HuffTypes == {"fixed", "dynamic"}

Payloads == UNION {[1..n -> PayloadBytes] : n \in 0..MaxLen}

\* one block holding the whole payload as literals
SinglePlans == {<<Block(t, Lits(x))>> : t \in BlockTypes, x \in Payloads}

\* two blocks of any two types, the payload split between them
SplitPlans ==
    UNION {{<<Block(t[1], Lits(SubSeq(x, 1, k))),
              Block(t[2], Lits(SubSeq(x, k + 1, Len(x))))>> : k \in 1..(Len(x) - 1)}
           : t \in BlockTypes \X BlockTypes, x \in Payloads}

\* back-references into the bytes already produced, one of them overlapping
\* its own output (distance < length)
MatchPlans ==
    {<<Block(t, <<[lit |-> 97], Match(3, 1)>>)>> : t \in HuffTypes}
    \cup {<<Block(t, <<[lit |-> 97], [lit |-> 200], Match(3, 2)>>)>> : t \in HuffTypes}

\* back-references to before the first byte produced: no valid stream
FarPlans ==
    {<<Block(t, <<Match(3, 1)>>)>> : t \in HuffTypes}
    \cup {<<Block(t, <<[lit |-> 97], Match(3, 2)>>)>> : t \in HuffTypes}

ValidPlans == SinglePlans \cup SplitPlans \cup MatchPlans

\* a header byte replaced: ID1 by 0x1e, ID2 by 0x8a, CM by 9
Corrupt(g, how) ==
    IF how = "id1" THEN [g EXCEPT ![1] = 30]
    ELSE IF how = "id2" THEN [g EXCEPT ![2] = 138]
    ELSE IF how = "cm" THEN [g EXCEPT ![3] = 9]
    ELSE g

\* A test case is an input buffer, the size of the output region, what the
\* input is (fam) and the payload its plan stands for (X):
\*   "valid"   a valid member, the region sized by gzdecsize
\*   "prefix"  a proper prefix of a valid member, the region sized for the
\*             member's payload
\*   "sized"   a member of a valid stream whose ISIZE field and output
\*             region are any two sizes up to MaxOut
\*   "far"     the same, the stream holding a back-reference to before the
\*             first byte (X is what the stream produces before it)
\*   "header"  a "sized" or "far" member with a header byte replaced
ValidCases ==
    {[fam |-> "valid", X |-> Payload(plan), outsize |-> Len(Payload(plan)),
      input |-> Member(plan, opt, Len(Payload(plan)))]
        : plan \in ValidPlans, opt \in BOOLEAN}

PrefixCases ==
    UNION {With(Member(plan, FALSE, Len(Payload(plan))), LAMBDA g :
           With(Payload(plan), LAMBDA x :
           {[fam |-> "prefix", X |-> x, outsize |-> Len(x), input |-> SubSeq(g, 1, k)]
               : k \in 0..(Len(g) - 1)}))
           : plan \in ValidPlans}

SizedCases ==
    UNION {With(Member(plan, FALSE, 0), LAMBDA g :
           With(Payload(plan), LAMBDA x :
           {[fam |-> IF how # "none" THEN "header"
                     ELSE IF plan \in FarPlans THEN "far" ELSE "sized",
             X |-> x, outsize |-> osz, input |-> Corrupt(WithIsize(g, isz), how)]
               : isz \in 0..MaxOut, osz \in 0..MaxOut,
                 how \in {"none", "id1", "id2", "cm"}}))
           : plan \in SinglePlans \cup MatchPlans \cup FarPlans}

TestCases == ValidCases \cup PrefixCases \cup SizedCases

(***************************************************************************)
(* The state machine.  Each call of gzdec is a process p; pc[p] is where   *)
(* the call stands.                                                        *)
(***************************************************************************)
Procs == {1, 2}

VARIABLES
    tc,          \* tc[p]: the test case of call p (fam, X) and, in the
                 \* concurrent runs, the outcome of its sequential run (ref)
    input,       \* input[p]: the bytes in[0 .. insize-1]
    outsize,     \* outsize[p]
    pc,          \* "idle", "start", "header", "block", "stored", "fixed",
                 \* "dynamic", "dynll", "dyndist", "body", "done"; the same
                 \* with an A for a call of the allocating variant
    status,      \* the value returned, "" until then
    ins,         \* the gz_bstream of the call
    out,         \* the bytes stored in the output region so far
    rdmin,       \* the lowest offset in the output region read through backp
    islast,      \* BFINAL of the current block
    hlit, hdist, \* of the current dynamic block
    arrclen, arrll, arrdist,               \* the code-length arrays of the call
    gz_htclen_, gz_htll_, gz_htdist_,      \* the file-scope tree arrays
    outs,        \* allocating variant: the gz_outstream of the call
    hts          \* allocating variant: the trees htclen, htll, htdist of the
                 \* call, <<>> for a null pointer

locals == <<islast, hlit, hdist, arrclen, arrll, arrdist>>
trees == <<gz_htclen_, gz_htll_, gz_htdist_>>
alloc == <<outs, hts>>
vars == <<tc, input, outsize, pc, status, ins, out, rdmin, locals, trees, alloc>>

\* unsigned int a[n] = {0}
ZeroArray(n) == [k \in 1..n |-> 0]

\* bytes that a read before the start of the output region may yield
JunkBytes == {0, 255}

\* gz_outstream outs = {0}: `out` holds the len bytes stored, null tells
\* that the pointer out is null
NoStream == [out |-> <<>>, cap |-> 0, null |-> TRUE]

\* htclen = 0, htll = 0, htdist = 0
NoTrees == [clen |-> <<>>, ll |-> <<>>, dist |-> <<>>]

\* no outcome recorded
NoRef == [status |-> "", out |-> <<>>]

\* the state of the calls before they have run: call p is to decode test
\* case cases[p], a call without one never starts
InitCalls(cases) ==
    /\ tc = [p \in Procs |-> IF p \in DOMAIN cases
                              THEN [fam |-> cases[p].fam, X |-> cases[p].X, ref |-> NoRef]
                              ELSE [fam |-> "none", X |-> <<>>, ref |-> NoRef]]
    /\ input = [p \in Procs |-> IF p \in DOMAIN cases THEN cases[p].input ELSE <<>>]
    /\ outsize = [p \in Procs |-> IF p \in DOMAIN cases THEN cases[p].outsize ELSE 0]
    /\ pc = [p \in Procs |-> IF p \notin DOMAIN cases THEN "idle"
                              ELSE IF cases[p].fam = "alloc" THEN "startA" ELSE "start"]
    /\ status = [p \in Procs |-> ""]
    /\ ins = [p \in Procs |-> [ptr |-> 0, buf |-> 0, mask |-> 0, end |-> 0]]
    /\ out = [p \in Procs |-> <<>>]
    /\ rdmin = [p \in Procs |-> 0]
    /\ islast = [p \in Procs |-> 0]
    /\ hlit = [p \in Procs |-> 0]
    /\ hdist = [p \in Procs |-> 0]
    /\ arrclen = [p \in Procs |-> ZeroArray(MAXCLEN)]
    /\ arrll = [p \in Procs |-> ZeroArray(LLLEN)]
    /\ arrdist = [p \in Procs |-> ZeroArray(DISTLEN)]
    /\ gz_htclen_ = <<>>
    /\ gz_htll_ = <<>>
    /\ gz_htdist_ = <<>>
    /\ outs = [p \in Procs |-> NoStream]
    /\ hts = [p \in Procs |-> NoTrees]

\* one call, on any test case
Init == \E c \in TestCases : InitCalls(1 :> c)

\* return(st)
Return(p, st) ==
    /\ pc' = [pc EXCEPT ![p] = "done"]
    /\ status' = [status EXCEPT ![p] = st]

Goto(p, where) ==
    /\ pc' = [pc EXCEPT ![p] = where]
    /\ UNCHANGED status

\* the call is killed: it never returns
Crash(p) == Goto(p, "crashed")

\* gz_gethufft has run i up to `i` by lengths[i++] = val on the array of
\* maxcount entries that gzdec holds on its stack.  Stores at indices >=
\* maxcount fall on whatever lies behind the array: the call may go on as
\* if nothing had happened or be killed (TRUE).
StoreOutcomes(i, maxcount) == IF i > maxcount THEN BOOLEAN ELSE {FALSE}

\* gzdec up to the header: the size checks and the set-up of the stream
Enter(p) ==
    /\ pc[p] = "start"
    /\ IF Len(input[p]) < 18 THEN Return(p, GZ_INVFILE) /\ UNCHANGED ins
       ELSE IF gzdecsize(input[p]) = U32(0) THEN Return(p, GZ_INVFILE) /\ UNCHANGED ins
       ELSE IF ULess(U32(outsize[p]), gzdecsize(input[p]))
            THEN Return(p, GZ_NOSPACE) /\ UNCHANGED ins
       ELSE /\ ins' = [ins EXCEPT ![p] = StreamInit(input[p])]
            /\ Goto(p, "header")
    /\ UNCHANGED <<alloc, tc, input, outsize, out, rdmin, locals, trees>>

\* the header fields
ReadHeader(p) ==
    /\ pc[p] = "header"
    /\ \E h \in {ParseHeader(ins[p], input[p])} :
           /\ ins' = [ins EXCEPT ![p] = h.s]
           /\ IF h.status # "" THEN Return(p, h.status) ELSE Goto(p, "block")
    /\ UNCHANGED <<alloc, tc, input, outsize, out, rdmin, locals, trees>>

\* the head of while(!islast): BFINAL, BTYPE and the dispatch on BTYPE
ReadBlockHeader(p) ==
    /\ pc[p] = "block"
    /\ \E l \in {gz_readbits(ins[p], input[p], 1)} :
       \E t \in {gz_readbits(l.s, input[p], 2)} :
           /\ ins' = [ins EXCEPT ![p] = t.s]
           /\ islast' = [islast EXCEPT ![p] = l.v]
           /\ IF t.v = 0 THEN Goto(p, "stored")
              ELSE IF t.v = 1 THEN Goto(p, "fixed")
              ELSE IF t.v = 2 THEN Goto(p, "dynamic")
              ELSE Return(p, GZ_INVFILE)
    /\ UNCHANGED <<alloc, tc, input, outsize, out, rdmin, hlit, hdist, arrclen, arrll,
                   arrdist, trees>>

\* the end of a block: the test of while(!islast), return(GZ_OK) after it
EndBlock(p) == IF islast[p] # 0 THEN Return(p, GZ_OK) ELSE Goto(p, "block")

\* b0len != ~b0nlen, on unsigned int
StoredMismatch(b0len, b0nlen) == U32(b0len) # UNot(U32(b0nlen))

\* while(b0len > 0) { EMIT(gz_readbits(&ins, 8)); --b0len; }: [ok, out, s]
StoredCopy(b0len, s, input_, out_, outsize_) ==
    IF b0len = 0 THEN [ok |-> TRUE, out |-> out_, s |-> s]
    ELSE With([ok |-> TRUE, out |-> out_, s |-> s], LAMBDA st :
         StoredLoop(st, input_, outsize_, 1, b0len))

\* BTYPE = 0
StoredBlock(p) ==
    /\ pc[p] = "stored"
    /\ \E b0len \in {gz_readbits(ins[p], input[p], 8)} :
       \E b0nlen \in {gz_readbits(b0len.s, input[p], 8)} :
           IF StoredMismatch(b0len.v, b0nlen.v)
           THEN /\ ins' = [ins EXCEPT ![p] = b0nlen.s]
                /\ Return(p, GZ_INVFILE)
                /\ UNCHANGED out
           ELSE \E c \in {StoredCopy(b0len.v, b0nlen.s, input[p], out[p], outsize[p])} :
                /\ ins' = [ins EXCEPT ![p] = c.s]
                /\ out' = [out EXCEPT ![p] = c.out]
                /\ IF c.ok THEN EndBlock(p) ELSE Return(p, GZ_INVFILE)
    /\ UNCHANGED <<alloc, tc, input, outsize, rdmin, locals, trees>>

\* BTYPE = 1: the fixed tables
FixedBlock(p) ==
    /\ pc[p] = "fixed"
    /\ arrll' = [arrll EXCEPT ![p] = FixedLL]
    /\ arrdist' = [arrdist EXCEPT ![p] = FixedDist]
    /\ \E ll \in {gz_buildht(FixedLL, LLLEN, gz_htll_, GZ_HTLL_MAX)} :
           /\ gz_htll_' = ll.ht
           /\ IF ll.ok
              THEN \E d \in {gz_buildht(FixedDist, DISTLEN, gz_htdist_, GZ_HTDIST_MAX)} :
                       /\ gz_htdist_' = d.ht
                       /\ IF d.ok THEN Goto(p, "body") ELSE Return(p, GZ_INVFILE)
              ELSE /\ UNCHANGED gz_htdist_
                   /\ Return(p, GZ_INVFILE)
    /\ UNCHANGED <<alloc, tc, input, outsize, ins, out, rdmin, islast, hlit, hdist,
                   arrclen, gz_htclen_>>

\* BTYPE = 2: HLIT, HDIST, HCLEN and the tree of the code-length code
DynamicCL(p) ==
    /\ pc[p] = "dynamic"
    /\ \E l \in {gz_readbits(ins[p], input[p], 5)} :
       \E d \in {gz_readbits(l.s, input[p], 5)} :
       \E c \in {gz_readbits(d.s, input[p], 4)} :
           /\ hlit' = [hlit EXCEPT ![p] = l.v]
           /\ hdist' = [hdist EXCEPT ![p] = d.v]
           /\ IF 257 + l.v > LLLEN
              THEN /\ ins' = [ins EXCEPT ![p] = c.s]
                   /\ Return(p, GZ_INVFILE)
                   /\ UNCHANGED <<arrclen, gz_htclen_>>
              ELSE \E r \in {ReadCLenLoop([i |-> 0, arrclen |-> arrclen[p], s |-> c.s],
                                          input[p], 0, c.v + 3)} :
                   \E b \in {gz_buildht(r.arrclen, MAXCLEN, gz_htclen_, GZ_HTCLEN_MAX)} :
                       /\ ins' = [ins EXCEPT ![p] = r.s]
                       /\ arrclen' = [arrclen EXCEPT ![p] = r.arrclen]
                       /\ gz_htclen_' = b.ht
                       /\ IF b.ok THEN Goto(p, "dynll") ELSE Return(p, GZ_INVFILE)
    /\ UNCHANGED <<alloc, tc, input, outsize, out, rdmin, islast, arrll, arrdist,
                   gz_htll_, gz_htdist_>>

\* BTYPE = 2: the literal/length code lengths and their tree
DynamicLL(p) ==
    /\ pc[p] = "dynll"
    /\ \E g \in {gz_gethufft(ins[p], input[p], 257 + hlit[p], LLLEN, gz_htclen_,
                             gz_htll_, GZ_HTLL_MAX)} :
           /\ ins' = [ins EXCEPT ![p] = g.s]
           /\ arrll' = [arrll EXCEPT ![p] = g.lengths]
           /\ gz_htll_' = g.ht
           /\ \E killed \in StoreOutcomes(g.i, LLLEN) :
                  IF killed THEN Crash(p)
                  ELSE IF g.ok THEN Goto(p, "dyndist") ELSE Return(p, GZ_INVFILE)
    /\ UNCHANGED <<alloc, tc, input, outsize, out, rdmin, islast, hlit, hdist, arrclen,
                   arrdist, gz_htclen_, gz_htdist_>>

\* BTYPE = 2: the distance code lengths and their tree
DynamicDist(p) ==
    /\ pc[p] = "dyndist"
    /\ \E g \in {gz_gethufft(ins[p], input[p], 1 + hdist[p], DISTLEN, gz_htclen_,
                             gz_htdist_, GZ_HTDIST_MAX)} :
           /\ ins' = [ins EXCEPT ![p] = g.s]
           /\ arrdist' = [arrdist EXCEPT ![p] = g.lengths]
           /\ gz_htdist_' = g.ht
           /\ \E killed \in StoreOutcomes(g.i, DISTLEN) :
                  IF killed THEN Crash(p)
                  ELSE IF g.ok THEN Goto(p, "body") ELSE Return(p, GZ_INVFILE)
    /\ UNCHANGED <<alloc, tc, input, outsize, out, rdmin, islast, hlit, hdist, arrclen,
                   arrll, gz_htclen_, gz_htll_>>

\* the end of the copy loop, c = [ok, out] as the loop leaves it: EMIT has
\* returned GZ_INVFILE when ok is FALSE
BackRefEnd(c, s, lo) ==
    [status |-> IF c.ok THEN "" ELSE GZ_INVFILE, s |-> s, out |-> c.out, lo |-> lo]

\* backp = outp - dist and the copy loop: [status, s, out, lo], status = ""
\* when the copy is complete, lo the lowest offset read through backp (0
\* when none lies before the region).  if(outp < out) never holds.
BackRefCopy(len, dist, s, out_, outsize_, junk) ==
    IF dist < 0 \/ len <= 0
    THEN [status |-> GZ_INVFILE, s |-> s, out |-> out_, lo |-> 0]
    ELSE With(CopyLoop([ok |-> TRUE, out |-> out_], outsize_, Len(out_) - dist,
                       junk, 0, len - 1), LAMBDA c :
         BackRefEnd(c, s,
                    IF Len(out_) < outsize_ /\ Len(out_) - dist < 0
                    THEN Len(out_) - dist ELSE 0))

\* dist = gz_getdist(dist, &ins), dist = [v, s] as gz_getdist returns it
BackRefDist(len, dist, out_, outsize_, junk) ==
    BackRefCopy(len, dist.v, dist.s, out_, outsize_, junk)

\* dist = gz_huffdec(&ins, htdist), len = [v, s] as gz_getlen returns it
BackRefLen(len, dc, input_, out_, outsize_, junk) ==
    With(gz_getdist(dc.v, dc.s, input_), LAMBDA dist :
    BackRefDist(len.v, dist, out_, outsize_, junk))

\* a back-reference of the two-function variant, from gz_getlen to the end
\* of the copy
BackRef(len, input_, htdist, out_, outsize_, junk) ==
    With(gz_huffdec(len.s, input_, htdist), LAMBDA dc :
    BackRefLen(len, dc, input_, out_, outsize_, junk))

\* one turn of while(sym != 256): the symbol decoded before it and what the
\* loop does with it
BodySymbol(p) ==
    /\ pc[p] = "body"
    /\ \E d \in {gz_huffdec(ins[p], input[p], gz_htll_)} :
           IF d.v = 256
           THEN /\ ins' = [ins EXCEPT ![p] = d.s]
                /\ EndBlock(p)
                /\ UNCHANGED <<out, rdmin>>
           ELSE IF d.v < 0 \/ d.v > LLLEN
           THEN /\ ins' = [ins EXCEPT ![p] = d.s]
                /\ Return(p, GZ_INVFILE)
                /\ UNCHANGED <<out, rdmin>>
           ELSE IF d.v <= 255
           THEN \E e \in {EMIT(out[p], outsize[p], d.v)} :
                    /\ ins' = [ins EXCEPT ![p] = d.s]
                    /\ out' = [out EXCEPT ![p] = e.out]
                    /\ IF e.ok THEN Goto(p, "body") ELSE Return(p, GZ_INVFILE)
                    /\ UNCHANGED rdmin
           ELSE IF d.v < LLLEN
           THEN \E junk \in JunkBytes :
                \E len \in {gz_getlen(d.v, d.s, input[p])} :
                \E b \in {BackRef(len, input[p], gz_htdist_, out[p], outsize[p],
                                  junk)} :
                    /\ ins' = [ins EXCEPT ![p] = b.s]
                    /\ out' = [out EXCEPT ![p] = b.out]
                    /\ rdmin' = [rdmin EXCEPT ![p] = IF b.lo < @ THEN b.lo ELSE @]
                    /\ IF b.status = "" THEN Goto(p, "body")
                       ELSE Return(p, b.status)
           ELSE /\ ins' = [ins EXCEPT ![p] = d.s]
                /\ Return(p, GZ_INVFILE)
                /\ UNCHANGED <<out, rdmin>>
    /\ UNCHANGED <<alloc, tc, input, outsize, locals, trees>>

Step(p) ==
    \/ Enter(p)
    \/ ReadHeader(p)
    \/ ReadBlockHeader(p)
    \/ StoredBlock(p)
    \/ FixedBlock(p)
    \/ DynamicCL(p)
    \/ DynamicLL(p)
    \/ DynamicDist(p)
    \/ BodySymbol(p)

Next == \E p \in Procs : Step(p)

Spec == Init /\ [][Next]_vars

(***************************************************************************)
(* The allocating variant (src/README.md): gzdec(in, insize, &out,         *)
(* &outsize).  Its bit reader, Huffman reader, length and distance codes   *)
(* and header fields are those above; its trees are allocated by every     *)
(* gz_buildht and its output grows by gz_realloc.  An allocation of more   *)
(* than MaxAlloc bytes fails; those of the tree builder succeed.           *)
(***************************************************************************)
MaxAlloc == 7

RECURSIVE SumBlen(_, _, _)
\* the sum of tree[i].blen over i in lo..hi
SumBlen(tree, lo, hi) ==
    IF lo = hi THEN tree[lo + 1].blen
    ELSE With((lo + hi) \div 2, LAMBDA mid :
         SumBlen(tree, lo, mid) + SumBlen(tree, mid + 1, hi))

\* gz_buildht from huffmax on, t being the code table
BuildTreeA(t) ==
    With(1 + SumBlen(t.tree, 0, t.last), LAMBDA huffmax :
    InsertLoop(t.tree, 0, t.last, [ok |-> TRUE, ht |-> <<NewNode>>], huffmax))

\* gz_buildht of the allocating variant: the tree, <<>> when it returns 0
TreeOrNull(b) == IF b.ok THEN b.ht ELSE <<>>

gz_buildhtA(cl, count) ==
    With(CodeTable(cl, count), LAMBDA t :
    With(BuildTreeA(t), LAMBDA b : TreeOrNull(b)))

\* the end of gz_gethufft: [lengths, s, i, ht]
GetHufftBuildA(g, count, maxcount) ==
    [lengths |-> g.lengths, s |-> g.s, i |-> g.i,
     ht |-> IF ~g.ok \/ g.i # count THEN <<>> ELSE gz_buildhtA(g.lengths, maxcount)]

gz_gethufftA(s, inp, count, maxcount, htclen) ==
    With([ok |-> TRUE, s |-> s, i |-> 0, lengths |-> [k \in 1..maxcount |-> 0]],
         LAMBDA st :
    With(GetLengthsLoop(inp, st, count, maxcount, htclen, 1, count), LAMBDA g :
    GetHufftBuildA(g, count, maxcount)))

\* gz_sfit.  A block obtained where the pointer was null holds junk.
gz_sfit(o, newcap, junk) ==
    IF (o.cap = 0 /\ newcap > 0) \/ (o.cap # 0 /\ newcap > o.cap)
    THEN IF newcap <= MaxAlloc
         THEN [out |-> IF o.null THEN [k \in 1..Len(o.out) |-> junk] ELSE o.out,
               cap |-> newcap, null |-> FALSE]
         ELSE [o EXCEPT !.null = TRUE]
    ELSE o

RECURSIVE NewCap(_, _)
\* while(stream->len + 1 >= newcap) newcap = newcap*2 + 1
NewCap(cap, len) ==
    IF len + 1 >= cap THEN With(cap * 2 + 1, LAMBDA c : NewCap(c, len)) ELSE cap

\* gz_emitb after gz_sfit
EmitStore(o, b) == IF o.null THEN o ELSE [o EXCEPT !.out = Append(@, b % 256)]

gz_emitb(o, b, junk) ==
    With(NewCap(o.cap, Len(o.out)), LAMBDA newcap :
    With(gz_sfit(o, newcap, junk), LAMBDA o1 : EmitStore(o1, b)))

\* gz_sadj
gz_sadj(o, size) == IF ~o.null /\ o.cap # size THEN [o EXCEPT !.cap = size] ELSE o

\* one turn of the copy loop of a back-reference, e the stream gz_emitb
\* leaves.  p is stale once the block has been reallocated elsewhere (not
\* inplace) or the pointer is null.
CopyEmitA(st, e, inplace) ==
    [o |-> e, stale |-> st.stale \/ e.null \/ (e.cap # st.o.cap /\ ~inplace)]

\* gz_emitb(&outs, *p), p at offset k of the block: a stale p reads junk
CopyStepA(st, k, inplace, junk) ==
    With(gz_emitb(st.o, IF st.stale THEN junk ELSE st.o.out[k + 1], junk), LAMBDA e :
    CopyEmitA(st, e, inplace))

RECURSIVE CopyLoopA(_, _, _, _, _, _)
\* while(len > 0) { gz_emitb(&outs, *p); ++p; len -= 1; }: the iterations
\* lo..hi, st = [o, stale], p0 the offset p starts at
CopyLoopA(st, p0, inplace, junk, lo, hi) ==
    IF lo = hi THEN CopyStepA(st, p0 + lo, inplace, junk)
    ELSE With((lo + hi) \div 2, LAMBDA mid :
         With(CopyLoopA(st, p0, inplace, junk, lo, mid), LAMBDA left :
         CopyLoopA(left, p0, inplace, junk, mid + 1, hi)))

\* return(st) after FREEALL()
ReturnA(p, st) ==
    /\ Return(p, st)
    /\ hts' = [hts EXCEPT ![p] = NoTrees]

\* gzdec of the allocating variant up to the header.  ins.buf = *ins.ptr++
\* reads in[0] whatever insize is: junk when insize = 0.
EnterA(p) ==
    /\ pc[p] = "startA"
    /\ \E junk \in JunkBytes :
           ins' = [ins EXCEPT ![p] = IF Len(input[p]) = 0
                                     THEN [ptr |-> 1, buf |-> junk, mask |-> 1, end |-> 0]
                                     ELSE StreamInit(input[p])]
    /\ Goto(p, "headerA")
    /\ UNCHANGED <<alloc, tc, input, outsize, out, rdmin, locals, trees>>

ReadHeaderA(p) ==
    /\ pc[p] = "headerA"
    /\ \E h \in {ParseHeader(ins[p], input[p])} :
           /\ ins' = [ins EXCEPT ![p] = h.s]
           /\ IF h.status # "" THEN Return(p, h.status) ELSE Goto(p, "blockA")
    /\ UNCHANGED <<alloc, tc, input, outsize, out, rdmin, locals, trees>>

ReadBlockHeaderA(p) ==
    /\ pc[p] = "blockA"
    /\ \E l \in {gz_readbits(ins[p], input[p], 1)} :
       \E t \in {gz_readbits(l.s, input[p], 2)} :
           /\ ins' = [ins EXCEPT ![p] = t.s]
           /\ islast' = [islast EXCEPT ![p] = l.v]
           /\ IF t.v = 0 THEN Goto(p, "storedA")
              ELSE IF t.v = 1 THEN Goto(p, "fixedA")
              ELSE IF t.v = 2 THEN Goto(p, "dynamicA")
              ELSE Return(p, GZ_INVFILE)
    /\ UNCHANGED <<alloc, tc, input, outsize, out, rdmin, hlit, hdist, arrclen,
                   arrll, arrdist, trees>>

\* FREEALL() at the end of a block, o being the output stream the block
\* leaves; after the last block gz_sadj and return(GZ_OK) with *out and
\* *outsize set from the stream
EndBlockA(p, o) ==
    /\ hts' = [hts EXCEPT ![p] = NoTrees]
    /\ IF islast[p] # 0
       THEN /\ outs' = [outs EXCEPT ![p] = gz_sadj(o, Len(o.out))]
            /\ Return(p, GZ_OK)
       ELSE /\ outs' = [outs EXCEPT ![p] = o]
            /\ Goto(p, "blockA")

\* b0len != -b0nlen, on unsigned int
StoredMismatchA(b0len, b0nlen) == U32(b0len) # UNeg(U32(b0nlen))

\* gz_emitb(&outs, gz_readbits(&ins, 8)), r = [v, s] as read
StoredByteA(st, r, junk) == [o |-> gz_emitb(st.o, r.v, junk), s |-> r.s]

RECURSIVE StoredLoopA(_, _, _, _, _)
\* while(b0len > 0) { gz_emitb(&outs, gz_readbits(&ins, 8)); --b0len; }:
\* the iterations lo..hi, st = [o, s]
StoredLoopA(st, inp, junk, lo, hi) ==
    IF lo > hi THEN st
    ELSE IF lo = hi
    THEN With(gz_readbits(st.s, inp, 8), LAMBDA r : StoredByteA(st, r, junk))
    ELSE With((lo + hi) \div 2, LAMBDA mid :
         With(StoredLoopA(st, inp, junk, lo, mid), LAMBDA left :
         StoredLoopA(left, inp, junk, mid + 1, hi)))

\* BTYPE = 0
StoredBlockA(p) ==
    /\ pc[p] = "storedA"
    /\ \E b0len \in {gz_readbits(ins[p], input[p], 8)} :
       \E b0nlen \in {gz_readbits(b0len.s, input[p], 8)} :
           IF StoredMismatchA(b0len.v, b0nlen.v)
           THEN /\ ins' = [ins EXCEPT ![p] = b0nlen.s]
                /\ ReturnA(p, GZ_INVFILE)
                /\ UNCHANGED outs
           ELSE \E junk \in JunkBytes :
                \E c \in {StoredLoopA([o |-> outs[p], s |-> b0nlen.s], input[p], junk,
                                      1, b0len.v)} :
                    /\ ins' = [ins EXCEPT ![p] = c.s]
                    /\ EndBlockA(p, c.o)
    /\ UNCHANGED <<tc, input, outsize, out, rdmin, locals, trees>>

\* BTYPE = 1
FixedBlockA(p) ==
    /\ pc[p] = "fixedA"
    /\ arrll' = [arrll EXCEPT ![p] = FixedLL]
    /\ arrdist' = [arrdist EXCEPT ![p] = FixedDist]
    /\ \E ll \in {gz_buildhtA(FixedLL, LLLEN)} :
       \E d \in {gz_buildhtA(FixedDist, DISTLEN)} :
           IF ll = <<>> \/ d = <<>>
           THEN ReturnA(p, GZ_INVFILE)
           ELSE /\ hts' = [hts EXCEPT ![p].ll = ll, ![p].dist = d]
                /\ Goto(p, "bodyA")
    /\ UNCHANGED <<outs, tc, input, outsize, ins, out, rdmin, islast, hlit, hdist,
                   arrclen, trees>>

\* BTYPE = 2: HLIT, HDIST, HCLEN and the tree of the code-length code
DynamicCLA(p) ==
    /\ pc[p] = "dynamicA"
    /\ \E l \in {gz_readbits(ins[p], input[p], 5)} :
       \E d \in {gz_readbits(l.s, input[p], 5)} :
       \E c \in {gz_readbits(d.s, input[p], 4)} :
           /\ hlit' = [hlit EXCEPT ![p] = l.v]
           /\ hdist' = [hdist EXCEPT ![p] = d.v]
           /\ IF 257 + l.v > LLLEN
              THEN /\ ins' = [ins EXCEPT ![p] = c.s]
                   /\ ReturnA(p, GZ_INVFILE)
                   /\ UNCHANGED arrclen
              ELSE \E r \in {ReadCLenLoop([i |-> 0, arrclen |-> arrclen[p], s |-> c.s],
                                          input[p], 0, c.v + 3)} :
                   \E b \in {gz_buildhtA(r.arrclen, MAXCLEN)} :
                       /\ ins' = [ins EXCEPT ![p] = r.s]
                       /\ arrclen' = [arrclen EXCEPT ![p] = r.arrclen]
                       /\ IF b = <<>> THEN ReturnA(p, GZ_INVFILE)
                          ELSE /\ hts' = [hts EXCEPT ![p].clen = b]
                               /\ Goto(p, "dynllA")
    /\ UNCHANGED <<outs, tc, input, outsize, out, rdmin, islast, arrll, arrdist,
                   trees>>

\* BTYPE = 2: the literal/length code lengths and their tree
DynamicLLA(p) ==
    /\ pc[p] = "dynllA"
    /\ \E g \in {gz_gethufftA(ins[p], input[p], 257 + hlit[p], LLLEN, hts[p].clen)} :
           /\ ins' = [ins EXCEPT ![p] = g.s]
           /\ arrll' = [arrll EXCEPT ![p] = g.lengths]
           /\ \E killed \in StoreOutcomes(g.i, LLLEN) :
                  IF killed THEN Crash(p) /\ UNCHANGED hts
                  ELSE IF g.ht = <<>> THEN ReturnA(p, GZ_INVFILE)
                  ELSE /\ hts' = [hts EXCEPT ![p].ll = g.ht]
                       /\ Goto(p, "dyndistA")
    /\ UNCHANGED <<outs, tc, input, outsize, out, rdmin, islast, hlit, hdist,
                   arrclen, arrdist, trees>>

\* BTYPE = 2: the distance code lengths and their tree
DynamicDistA(p) ==
    /\ pc[p] = "dyndistA"
    /\ \E g \in {gz_gethufftA(ins[p], input[p], 1 + hdist[p], DISTLEN, hts[p].clen)} :
           /\ ins' = [ins EXCEPT ![p] = g.s]
           /\ arrdist' = [arrdist EXCEPT ![p] = g.lengths]
           /\ \E killed \in StoreOutcomes(g.i, DISTLEN) :
                  IF killed THEN Crash(p) /\ UNCHANGED hts
                  ELSE IF g.ht = <<>> THEN ReturnA(p, GZ_INVFILE)
                  ELSE /\ hts' = [hts EXCEPT ![p].dist = g.ht]
                       /\ Goto(p, "bodyA")
    /\ UNCHANGED <<outs, tc, input, outsize, out, rdmin, islast, hlit, hdist,
                   arrclen, arrll, trees>>

\* gz_sfit(&outs, outs.len + dist + 1), p = outs.out + outs.len - dist, the
\* test of dist against outs.len and the copy loop, o being the stream
\* gz_sfit leaves: [status, o]
BackRefCopyA(len, dist, o, inplace, junk) ==
    IF dist > Len(o.out) THEN [status |-> GZ_INVFILE, o |-> o]
    ELSE With([o |-> o, stale |-> o.null], LAMBDA st :
         [status |-> "",
          o |-> CopyLoopA(st, Len(o.out) - dist, inplace, junk, 0, len - 1).o])

\* dist = gz_getdist(dist, &ins) and the test dist < 0 || len <= 0, dist =
\* [v, s] as gz_getdist returns it: [status, s, o]
BackRefDistA(len, dist, o, inplace, junk) ==
    IF dist.v < 0 \/ len <= 0 THEN [status |-> GZ_INVFILE, s |-> dist.s, o |-> o]
    ELSE With(gz_sfit(o, Len(o.out) + dist.v + 1, junk), LAMBDA o1 :
         [s |-> dist.s] @@ BackRefCopyA(len, dist.v, o1, inplace, junk))

BackRefLenA(len, dc, inp, o, inplace, junk) ==
    With(gz_getdist(dc.v, dc.s, inp), LAMBDA dist :
    BackRefDistA(len.v, dist, o, inplace, junk))

\* a back-reference of the allocating variant, from gz_getlen on
BackRefA(len, inp, htdist, o, inplace, junk) ==
    With(gz_huffdec(len.s, inp, htdist), LAMBDA dc :
    BackRefLenA(len, dc, inp, o, inplace, junk))

\* one turn of while(sym != 256)
BodySymbolA(p) ==
    /\ pc[p] = "bodyA"
    /\ \E d \in {gz_huffdec(ins[p], input[p], hts[p].ll)} :
       \E junk \in JunkBytes :
           IF d.v = 256
           THEN /\ ins' = [ins EXCEPT ![p] = d.s]
                /\ EndBlockA(p, outs[p])
           ELSE IF d.v < 0 \/ d.v > LLLEN
           THEN /\ ins' = [ins EXCEPT ![p] = d.s]
                /\ ReturnA(p, GZ_INVFILE)
                /\ UNCHANGED outs
           ELSE IF d.v <= 255
           THEN /\ ins' = [ins EXCEPT ![p] = d.s]
                /\ outs' = [outs EXCEPT ![p] = gz_emitb(@, d.v, junk)]
                /\ Goto(p, "bodyA")
                /\ UNCHANGED hts
           ELSE IF d.v < LLLEN
           THEN \E inplace \in BOOLEAN :
                \E len \in {gz_getlen(d.v, d.s, input[p])} :
                \E b \in {BackRefA(len, input[p], hts[p].dist, outs[p], inplace,
                                   junk)} :
                    /\ ins' = [ins EXCEPT ![p] = b.s]
                    /\ outs' = [outs EXCEPT ![p] = b.o]
                    /\ IF b.status = "" THEN Goto(p, "bodyA") /\ UNCHANGED hts
                       ELSE ReturnA(p, b.status)
           ELSE /\ ins' = [ins EXCEPT ![p] = d.s]
                /\ ReturnA(p, GZ_INVFILE)
                /\ UNCHANGED outs
    /\ UNCHANGED <<tc, input, outsize, out, rdmin, locals, trees>>

StepA(p) ==
    \/ EnterA(p)
    \/ ReadHeaderA(p)
    \/ ReadBlockHeaderA(p)
    \/ StoredBlockA(p)
    \/ FixedBlockA(p)
    \/ DynamicCLA(p)
    \/ DynamicLLA(p)
    \/ DynamicDistA(p)
    \/ BodySymbolA(p)

(***************************************************************************)
(* Termination.  One call of either variant on a member or on any prefix   *)
(* of it, the empty one included; the call runs on: a step that is enabled *)
(* is taken.                                                               *)
(***************************************************************************)
LivePlans ==
    {<<Block("stored", Lits(<<97>>))>>,
     <<Block("fixed", <<[lit |-> 97], [lit |-> 200], Match(3, 2)>>)>>,
     <<Block("fixed", <<[lit |-> 97], Match(3, 1)>>)>>,
     <<Block("dynamic", Lits(<<200>>))>>,
     <<Block("fixed", Lits(<<97>>)), Block("dynamic", <<[lit |-> 200], Match(3, 1)>>)>>}

LiveCases ==
    UNION {{[fam |-> f, X |-> Payload(plan), outsize |-> Len(Payload(plan)),
             input |-> SubSeq(Member(plan, FALSE, Len(Payload(plan))), 1, k)]
               : k \in 0..Len(Member(plan, FALSE, 0)), f \in {"live", "alloc"}}
           : plan \in LivePlans}

InitLive == \E c \in LiveCases : InitCalls(1 :> c)

NextLive == \E p \in Procs : Step(p) \/ StepA(p)

SpecLive == InitLive /\ [][NextLive]_vars /\ WF_vars(NextLive)

(***************************************************************************)
(* Two calls on disjoint buffers.  gz_htll_, gz_htdist_ and gz_htclen_ are *)
(* the only state the calls share here: gz_buildht is taken as one step,   *)
(* so the interleavings inside it, on gz_range_, gz_blcount_, gz_nxtcode_  *)
(* and gz_tree_, are left out and every behaviour below is one of the      *)
(* program's.  Each pair of calls runs twice: first one after the other    *)
(* (fam = "seq"), the outcomes being recorded, then again interleaved in   *)
(* any way (fam = "par").                                                  *)
(***************************************************************************)
ConcPlans ==
    {<<Block("fixed", Lits(<<97>>))>>, <<Block("dynamic", Lits(<<200>>))>>,
     <<Block("stored", Lits(<<97>>))>>,
     <<Block("fixed", <<[lit |-> 97], [lit |-> 200], Match(3, 2)>>)>>}

ConcCases ==
    {[fam |-> "seq", X |-> Payload(plan), outsize |-> Len(Payload(plan)),
      input |-> Member(plan, FALSE, Len(Payload(plan)))] : plan \in ConcPlans}

InitConc == \E c1 \in ConcCases, c2 \in ConcCases : InitCalls(1 :> c1 @@ 2 :> c2)

\* in the sequential run call 2 is made when call 1 has returned
CanRun(p) ==
    tc[p].fam \in {"seq", "trail"} => \A q \in Procs : q < p => pc[q] = "done"

\* both calls of the sequential run have returned: their outcomes are
\* recorded and the two calls are made again, each with its own fresh
\* locals and a cleared output region; the file-scope arrays keep what the
\* calls have left in them
CallAgain ==
    /\ \A p \in Procs : pc[p] = "done" /\ tc[p].fam = "seq"
    /\ tc' = [p \in Procs |->
                 [tc[p] EXCEPT !.fam = "par",
                               !.ref = [status |-> status[p], out |-> out[p]]]]
    /\ pc' = [p \in Procs |-> "start"]
    /\ status' = [p \in Procs |-> ""]
    /\ ins' = [p \in Procs |-> [ptr |-> 0, buf |-> 0, mask |-> 0, end |-> 0]]
    /\ out' = [p \in Procs |-> <<>>]
    /\ rdmin' = [p \in Procs |-> 0]
    /\ islast' = [p \in Procs |-> 0]
    /\ hlit' = [p \in Procs |-> 0]
    /\ hdist' = [p \in Procs |-> 0]
    /\ arrclen' = [p \in Procs |-> ZeroArray(MAXCLEN)]
    /\ arrll' = [p \in Procs |-> ZeroArray(LLLEN)]
    /\ arrdist' = [p \in Procs |-> ZeroArray(DISTLEN)]
    /\ UNCHANGED <<alloc, input, outsize, trees>>

\* a step of call p when the caller has made it
ConcStep(p) ==
    \/ CanRun(p) /\ Enter(p)
    \/ CanRun(p) /\ ReadHeader(p)
    \/ CanRun(p) /\ ReadBlockHeader(p)
    \/ CanRun(p) /\ StoredBlock(p)
    \/ CanRun(p) /\ FixedBlock(p)
    \/ CanRun(p) /\ DynamicCL(p)
    \/ CanRun(p) /\ DynamicLL(p)
    \/ CanRun(p) /\ DynamicDist(p)
    \/ CanRun(p) /\ BodySymbol(p)

NextConc ==
    \/ \E p \in Procs : ConcStep(p)
    \/ CallAgain

SpecConc == InitConc /\ [][NextConc]_vars

(***************************************************************************)
(* Trailing bytes.  Call 1 decodes a valid member G, call 2, made when     *)
(* call 1 has returned, decodes G followed by the bytes T into a region of *)
(* the same size.                                                          *)
(***************************************************************************)
Trailers == {<<0>>, <<0, 0, 0, 0>>, <<1, 0, 0, 0>>, <<255, 255, 255, 255>>}

TrailCases ==
    UNION {With(Member(plan, FALSE, Len(Payload(plan))), LAMBDA g :
           With(Payload(plan), LAMBDA x :
           {1 :> [fam |-> "member", X |-> x, outsize |-> Len(x), input |-> g]
            @@ 2 :> [fam |-> "trail", X |-> x, outsize |-> Len(x), input |-> g \o t]
               : t \in Trailers}))
           : plan \in ConcPlans}

InitTrail == \E cases \in TrailCases : InitCalls(cases)

NextTrail == \E p \in Procs : ConcStep(p)

SpecTrail == InitTrail /\ [][NextTrail]_vars

(***************************************************************************)
(* Stored blocks.  One call of either variant on a member whose DEFLATE    *)
(* stream is one final stored block as RFC 1951 3.2.4 lays it out: the     *)
(* header bits BFINAL = 1, BTYPE = 00, five bits of padding, LEN and NLEN  *)
(* as 16-bit little-endian values and, where NLEN is the complement of LEN *)
(* and LEN is small, LEN bytes of data.  BTYPE is 0 and BFINAL is 1 in     *)
(* every one of them, so the call never reaches another kind of block.     *)
(***************************************************************************)
StoredLens == {0, 1, 2, 255, 256, 65280, 65534, 65535}

\* the data of the stored block: LEN bytes when the fields agree
StoredData(len, nlen) ==
    IF nlen = 65535 - len /\ len <= MaxLen THEN [k \in 1..len |-> 97] ELSE <<>>

StoredMember(len, nlen) ==
    With(StoredData(len, nlen), LAMBDA x :
    MemberHeader(FALSE) \o <<1>> \o LE(len, 2) \o LE(nlen, 2) \o x
    \o Crc32(x) \o LE(IF Len(x) > 0 THEN Len(x) ELSE 1, 4))

StoredCases ==
    {[fam |-> f, X |-> StoredData(len, nlen), outsize |-> MaxLen,
      input |-> StoredMember(len, nlen)]
        : f \in {"stored", "alloc"}, len \in StoredLens, nlen \in StoredLens}

InitStored == \E c \in StoredCases : InitCalls(1 :> c)

NextStored ==
    \E p \in Procs :
        \/ Enter(p)
        \/ ReadHeader(p)
        \/ ReadBlockHeader(p)
        \/ StoredBlock(p)
        \/ EnterA(p)
        \/ ReadHeaderA(p)
        \/ ReadBlockHeaderA(p)
        \/ StoredBlockA(p)

SpecStored == InitStored /\ [][NextStored]_vars

(***************************************************************************)
(* Several dynamic blocks.  One call of either variant on a valid member   *)
(* whose blocks bring dynamic tables with code-length vectors of different *)
(* sizes (HCLEN = 14 and HCLEN = 1), in either order, alone, and after a   *)
(* block of another type.                                                  *)
(***************************************************************************)
DynPlans ==
    {<<Block("dynamic", Lits(<<200>>)), Block("dynamic8", Lits(<<97>>))>>,
     <<Block("dynamic8", Lits(<<97>>)), Block("dynamic", Lits(<<200>>))>>,
     <<Block("dynamic8", Lits(<<97>>)), Block("dynamic8", Lits(<<200>>))>>,
     <<Block("dynamic", Lits(<<97>>)), Block("dynamic", Lits(<<200>>))>>,
     <<Block("dynamic8", Lits(<<97, 200>>))>>,
     <<Block("dynamic", <<[lit |-> 97], Match(3, 1)>>)>>,
     <<Block("fixed", Lits(<<97>>)), Block("dynamic8", Lits(<<200>>))>>,
     <<Block("stored", Lits(<<97>>)), Block("dynamic8", Lits(<<200>>))>>}

\* A code-length symbol of a dynamic block header whose code-length code
\* gives the symbols 1, 16, 17 and 18 the codes 00, 01, 10 and 11: the code
\* and, for 16, 17 and 18, the extra bits of a repeat count of x
CLSymbol(sym, x) ==
    IF sym = 1 THEN <<0, 0>>
    ELSE IF sym = 16 THEN <<0, 1>> \o Bits(x - 3, 2)
    ELSE IF sym = 17 THEN <<1, 0>> \o Bits(x - 3, 3)
    ELSE <<1, 1>> \o Bits(x - 11, 7)

\* a member whose one block is dynamic with the given HLIT and HDIST, HCLEN
\* = 14 and the code-length symbols syms = <<sym, x>>, ... after the code
\* lengths of that code-length code; ISIZE = 1
RunMember(hl, hd, syms) ==
    MemberHeader(FALSE)
    \o Pack(<<1, 0, 1>> \o Bits(hl, 5) \o Bits(hd, 5) \o Bits(14, 4)
            \o Flatten([k \in 1..18 |-> Bits(IF k \in {1, 2, 3, 18} THEN 2 ELSE 0, 3)])
            \o Flatten([k \in 1..Len(syms) |-> CLSymbol(syms[k][1], syms[k][2])]))
    \o <<0, 0, 0, 0>> \o LE(1, 4)

\* code-length sequences that run past the target: by symbol 18, 17 and 16
\* within the array of the literal/length lengths, by symbol 18 past its
\* end, and the same for the distance lengths after 257 literal/length
\* lengths; the last one stops at both targets
RunMembers ==
    {RunMember(0, 0, <<<<18, 138>>, <<18, 138>>>>),
     RunMember(0, 0, <<<<18, 138>>, <<18, 118>>, <<17, 10>>>>),
     RunMember(0, 0, <<<<18, 138>>, <<18, 117>>, <<1, 0>>, <<16, 6>>>>),
     RunMember(31, 0, <<<<18, 138>>, <<18, 138>>, <<18, 138>>>>),
     RunMember(0, 0, <<<<18, 138>>, <<18, 117>>, <<1, 0>>, <<1, 0>>, <<17, 3>>>>),
     RunMember(0, 1, <<<<18, 138>>, <<18, 117>>, <<1, 0>>, <<1, 0>>, <<1, 0>>,
                       <<16, 3>>>>),
     RunMember(0, 0, <<<<18, 138>>, <<18, 117>>, <<1, 0>>, <<1, 0>>, <<18, 138>>>>),
     RunMember(0, 0, <<<<18, 138>>, <<18, 117>>, <<1, 0>>, <<1, 0>>, <<1, 0>>>>)}

DynCases ==
    UNION {With(Member(plan, FALSE, Len(Payload(plan))), LAMBDA g :
           With(Payload(plan), LAMBDA x :
           {[fam |-> f, X |-> x, outsize |-> Len(x), input |-> g]
               : f \in {"dyn", "alloc"}}))
           : plan \in DynPlans}
    \cup {[fam |-> f, X |-> <<>>, outsize |-> 1, input |-> g]
             : f \in {"run", "alloc"}, g \in RunMembers}

InitDyn == \E c \in DynCases : InitCalls(1 :> c)

NextDyn == \E p \in Procs : Step(p) \/ StepA(p)

SpecDyn == InitDyn /\ [][NextDyn]_vars

(***************************************************************************)
(* gz_buildht on its own.  The code-length vector is in arrclen, arrll or  *)
(* arrdist, as at the three calls of a dynamic block, and the one step is  *)
(* the call gz_buildht(vector, count, tree array, htmax).  The vectors:    *)
(* the first MaxSyms symbols have any lengths up to MaxBits, the last      *)
(* symbol any length of TailLens and the others are absent; or every       *)
(* symbol has the same length of FullLens.                                 *)
(***************************************************************************)
MaxSyms == 3
MaxBits == 3

TailLens == {0, 1, 2, 15}
FullLens == {1, 4, 5, 7, 8, 15}

PrefixVec(A, x, t) ==
    [k \in 1..A |-> IF k <= Len(x) THEN x[k] ELSE IF k = A THEN t ELSE 0]

FullVec(A, L) == [k \in 1..A |-> L]

BuildVectors(A) ==
    {PrefixVec(A, x, t) : x \in [1..MaxSyms -> 0..MaxBits], t \in TailLens}
    \cup {FullVec(A, L) : L \in FullLens}

BuildCases ==
    {[fam |-> "clen", cl |-> v] : v \in BuildVectors(MAXCLEN)}
    \cup {[fam |-> "ll", cl |-> v] : v \in BuildVectors(LLLEN)}
    \cup {[fam |-> "dist", cl |-> v] : v \in BuildVectors(DISTLEN)}

\* call 1 stands before gz_buildht with the vector of case c
InitBuildCase(c) ==
    /\ tc = [p \in Procs |-> [fam |-> IF p = 1 THEN c.fam ELSE "none", X |-> <<>>,
                              ref |-> NoRef]]
    /\ input = [p \in Procs |-> <<>>]
    /\ outsize = [p \in Procs |-> 0]
    /\ pc = [p \in Procs |-> IF p = 1 THEN "build" ELSE "idle"]
    /\ status = [p \in Procs |-> ""]
    /\ ins = [p \in Procs |-> [ptr |-> 0, buf |-> 0, mask |-> 0, end |-> 0]]
    /\ out = [p \in Procs |-> <<>>]
    /\ rdmin = [p \in Procs |-> 0]
    /\ islast = [p \in Procs |-> 0]
    /\ hlit = [p \in Procs |-> 0]
    /\ hdist = [p \in Procs |-> 0]
    /\ arrclen = [p \in Procs |-> IF p = 1 /\ c.fam = "clen" THEN c.cl
                                   ELSE ZeroArray(MAXCLEN)]
    /\ arrll = [p \in Procs |-> IF p = 1 /\ c.fam = "ll" THEN c.cl
                                 ELSE ZeroArray(LLLEN)]
    /\ arrdist = [p \in Procs |-> IF p = 1 /\ c.fam = "dist" THEN c.cl
                                   ELSE ZeroArray(DISTLEN)]
    /\ gz_htclen_ = <<>>
    /\ gz_htll_ = <<>>
    /\ gz_htdist_ = <<>>
    /\ outs = [p \in Procs |-> NoStream]
    /\ hts = [p \in Procs |-> NoTrees]

InitBuild == \E c \in BuildCases : InitBuildCase(c)

\* gz_buildht has returned b.ok
Built(p, b) == pc' = [pc EXCEPT ![p] = IF b.ok THEN "built" ELSE "nobuild"]

\* gz_buildht(arrclen, MAXCLEN, htclen, GZ_HTCLEN_MAX)
BuildCLen(p) ==
    /\ pc[p] = "build" /\ tc[p].fam = "clen"
    /\ \E b \in {gz_buildht(arrclen[p], MAXCLEN, gz_htclen_, GZ_HTCLEN_MAX)} :
           gz_htclen_' = b.ht /\ Built(p, b)
    /\ UNCHANGED <<tc, input, outsize, status, ins, out, rdmin, locals, gz_htll_,
                   gz_htdist_, alloc>>

\* gz_buildht(lengths, LLLEN, htll, GZ_HTLL_MAX)
BuildLL(p) ==
    /\ pc[p] = "build" /\ tc[p].fam = "ll"
    /\ \E b \in {gz_buildht(arrll[p], LLLEN, gz_htll_, GZ_HTLL_MAX)} :
           gz_htll_' = b.ht /\ Built(p, b)
    /\ UNCHANGED <<tc, input, outsize, status, ins, out, rdmin, locals, gz_htclen_,
                   gz_htdist_, alloc>>

\* gz_buildht(lengths, DISTLEN, htdist, GZ_HTDIST_MAX)
BuildDist(p) ==
    /\ pc[p] = "build" /\ tc[p].fam = "dist"
    /\ \E b \in {gz_buildht(arrdist[p], DISTLEN, gz_htdist_, GZ_HTDIST_MAX)} :
           gz_htdist_' = b.ht /\ Built(p, b)
    /\ UNCHANGED <<tc, input, outsize, status, ins, out, rdmin, locals, gz_htclen_,
                   gz_htll_, alloc>>

NextBuild == \E p \in Procs : BuildCLen(p) \/ BuildLL(p) \/ BuildDist(p)

SpecBuild == InitBuild /\ [][NextBuild]_vars

(***************************************************************************)
(* gz_readbits on its own.  The stream is set up on an input of 1 to       *)
(* MaxBytes bytes as gzdec sets it up, and each step is one call of        *)
(* gz_readbits with any width of Widths.  tc[p] keeps the account of the   *)
(* calls: `from` is the number of bits asked for before the last call, n   *)
(* the width of the last call and v its result.  The calls go on until     *)
(* MaxPast bits have been asked for beyond the end of the input.           *)
(***************************************************************************)
MaxBytes == 2
MaxPast == 8

BitBytes == {0, 1, 165, 255}
Widths == {0, 1, 2, 3, 5, 7, 8, 13, 16}

BitInputs == UNION {[1..n -> BitBytes] : n \in 1..MaxBytes}

InitBitsCase(inp) ==
    /\ tc = [p \in Procs |-> IF p = 1 THEN [fam |-> "bits", from |-> 0, n |-> 0, v |-> 0]
                              ELSE [fam |-> "none", from |-> 0, n |-> 0, v |-> 0]]
    /\ input = [p \in Procs |-> IF p = 1 THEN inp ELSE <<>>]
    /\ outsize = [p \in Procs |-> 0]
    /\ pc = [p \in Procs |-> IF p = 1 THEN "bits" ELSE "idle"]
    /\ status = [p \in Procs |-> ""]
    /\ ins = [p \in Procs |-> IF p = 1 THEN StreamInit(inp)
                               ELSE [ptr |-> 0, buf |-> 0, mask |-> 0, end |-> 0]]
    /\ out = [p \in Procs |-> <<>>]
    /\ rdmin = [p \in Procs |-> 0]
    /\ islast = [p \in Procs |-> 0]
    /\ hlit = [p \in Procs |-> 0]
    /\ hdist = [p \in Procs |-> 0]
    /\ arrclen = [p \in Procs |-> ZeroArray(MAXCLEN)]
    /\ arrll = [p \in Procs |-> ZeroArray(LLLEN)]
    /\ arrdist = [p \in Procs |-> ZeroArray(DISTLEN)]
    /\ gz_htclen_ = <<>>
    /\ gz_htll_ = <<>>
    /\ gz_htdist_ = <<>>
    /\ outs = [p \in Procs |-> NoStream]
    /\ hts = [p \in Procs |-> NoTrees]

InitBits == \E inp \in BitInputs : InitBitsCase(inp)

\* one call gz_readbits(&ins, n)
ReadBits(p) ==
    /\ pc[p] = "bits"
    /\ tc[p].from + tc[p].n < 8 * Len(input[p]) + MaxPast
    /\ \E n \in Widths :
       \E r \in {gz_readbits(ins[p], input[p], n)} :
           /\ ins' = [ins EXCEPT ![p] = r.s]
           /\ tc' = [tc EXCEPT ![p] = [fam |-> "bits", from |-> tc[p].from + tc[p].n,
                                       n |-> n, v |-> r.v]]
    /\ UNCHANGED <<input, outsize, pc, status, out, rdmin, locals, trees, alloc>>

NextBits == \E p \in Procs : ReadBits(p)

SpecBits == InitBits /\ [][NextBits]_vars

(***************************************************************************)
(* Properties of the two-function gzdec under Spec                         *)
(***************************************************************************)
Done(p) == pc[p] = "done"

\* the trailer ISIZE of call p's input lies in 1..outsize: the size checks
\* of gzdec pass
SizeChecksPass(p) ==
    /\ Len(input[p]) >= 18
    /\ gzdecsize(input[p]) # U32(0)
    /\ ~ULess(U32(outsize[p]), gzdecsize(input[p]))

\* C1: a call on a valid member G of X with outsize = gzdecsize(G) returns
\* GZ_OK with the first |X| bytes of out equal to X (stated for the X that
\* are not empty; C2 is the empty one).
C1_RoundTrip ==
    \A p \in Procs :
        tc[p].fam = "valid" /\ tc[p].X # <<>> /\ Done(p)
            => status[p] = GZ_OK /\ Len(out[p]) >= Len(tc[p].X)
               /\ SubSeq(out[p], 1, Len(tc[p].X)) = tc[p].X

\* C2: a call on a valid member of the empty byte sequence returns GZ_OK
\* and writes no byte.
C2_EmptyPayloadAccepted ==
    \A p \in Procs :
        tc[p].fam = "valid" /\ tc[p].X = <<>> /\ Done(p)
            => status[p] = GZ_OK /\ out[p] = <<>>

\* C3: when a call returns GZ_OK the number of bytes written equals
\* gzdecsize(in, insize).
C3_SizeMatchesOnSuccess ==
    \A p \in Procs :
        Done(p) /\ status[p] = GZ_OK => U32(Len(out[p])) = gzdecsize(input[p])

\* C4: in every state, for every input and outsize, the bytes stored lie at
\* offsets below outsize: the output cursor is in [out, out + outsize].
C4_OutputWithinRegion ==
    \A p \in Procs : Len(out[p]) <= outsize[p]

\* C4 happens: a call has filled a non-empty region and returned at the
\* emission it has refused, the stream having more to emit
C4_Witness ==
    \E p \in Procs :
        /\ Done(p) /\ tc[p].fam = "sized"
        /\ outsize[p] > 0 /\ Len(out[p]) = outsize[p]
        /\ Len(tc[p].X) > outsize[p]
        /\ status[p] = GZ_INVFILE

\* C5: no copy of a back-reference reads a position before the start of the
\* output region (a distance greater than the number of bytes emitted makes
\* the call return before any byte is copied).
C5_NoReadBeforeRegion ==
    \A p \in Procs : rdmin[p] >= 0

\* C7: a call on a proper prefix of a valid member, the region as large as
\* the member's payload, returns GZ_INVFILE.
C7_PrefixRejected ==
    \A p \in Procs : tc[p].fam = "prefix" /\ Done(p) => status[p] = GZ_INVFILE

\* C8: a call on an input whose first two bytes are not 0x1f 0x8b returns
\* GZ_INVMAGIC, and one on an input with the magic and a CM byte other than
\* 8 returns GZ_INVCMETHOD, whatever the rest of the input and the outsize.
C8_HeaderClassification ==
    \A p \in Procs :
        Done(p) /\ Len(input[p]) >= 3
            => /\ input[p][1] # 31 \/ input[p][2] # 139 => status[p] = GZ_INVMAGIC
               /\ input[p][1] = 31 /\ input[p][2] = 139 /\ input[p][3] # 8
                      => status[p] = GZ_INVCMETHOD

\* C9: a call whose size checks pass and whose stream emits more than
\* outsize bytes returns GZ_NOSPACE at the emission that finds the region
\* full.
C9_OverflowIsNoSpace ==
    \A p \in Procs :
        /\ Done(p) /\ tc[p].fam = "sized" /\ SizeChecksPass(p)
        /\ Len(tc[p].X) > outsize[p] /\ Len(out[p]) = outsize[p]
        => status[p] = GZ_NOSPACE

\* C10: two calls running concurrently on disjoint buffers each return the
\* status and produce the output of their sequential run.
C10_NoInterference ==
    \A p \in Procs :
        Done(p) /\ tc[p].fam = "par"
            => status[p] = tc[p].ref.status /\ out[p] = tc[p].ref.out

\* C11: gzdecsize and gzdec on a valid member followed by further bytes
\* give the size, the status and the output they give on the member alone.
C11_TrailingBytesIgnored ==
    Done(1) /\ Done(2) /\ tc[2].fam = "trail"
        => /\ gzdecsize(input[2]) = gzdecsize(input[1])
           /\ status[2] = status[1]
           /\ out[2] = out[1]

\* C12: in the allocating gzdec a back-reference of length len at a distance
\* dist of 1 up to the number of bytes emitted, the allocations succeeding,
\* appends len bytes, each the byte dist positions before it.
C12_BackRefCopies ==
    [][\A p \in Procs :
         pc[p] = "bodyA" /\ outs'[p] # outs[p] =>
             \A d \in {gz_huffdec(ins[p], input[p], hts[p].ll)} :
                 d.v > 256 /\ d.v < LLLEN =>
                     \A len \in {gz_getlen(d.v, d.s, input[p])} :
                     \A dc \in {gz_huffdec(len.s, input[p], hts[p].dist)} :
                     \A dist \in {gz_getdist(dc.v, dc.s, input[p])} :
                         /\ len.v > 0
                         /\ dist.v >= 1 /\ dist.v <= Len(outs[p].out)
                         /\ ~outs[p].null /\ ~outs'[p].null
                         => outs'[p].out = CopyBack(outs[p].out, dist.v, len.v)]_vars

\* the LEN and NLEN fields of a member without optional header fields whose
\* first block is a stored block
StoredLEN(inp) == inp[12] + 256 * inp[13]
StoredNLEN(inp) == inp[14] + 256 * inp[15]

\* C13: in both variants a call on a stored block whose NLEN is not the
\* one's complement of LEN returns GZ_INVFILE, LEN = NLEN = 0 included.
C13_StoredMismatchRejected ==
    \A p \in Procs :
        /\ Done(p) /\ tc[p].fam \in {"stored", "alloc"}
        /\ StoredNLEN(input[p]) # 65535 - StoredLEN(input[p])
        => status[p] = GZ_INVFILE

\* C14: the two-function gzdec, on a stored block whose NLEN is the one's
\* complement of LEN and whose LEN data bytes are there, appends exactly
\* those LEN bytes to the output, does not fail, and reads on at the byte
\* after them.
C14_StoredBlockCopies ==
    [][\A p \in Procs :
         /\ pc[p] = "stored" /\ pc'[p] # "stored"
         /\ StoredNLEN(input[p]) = 65535 - StoredLEN(input[p])
         /\ Len(input[p]) >= 15 + StoredLEN(input[p]) + 8
         /\ outsize[p] >= Len(out[p]) + StoredLEN(input[p])
         => /\ out'[p] = out[p] \o SubSeq(input[p], 16, 15 + StoredLEN(input[p]))
            /\ status'[p] # GZ_INVFILE
            /\ gz_readbits(ins'[p], input[p], 8).v = input[p][16 + StoredLEN(input[p])]]_vars

\* C15: in every dynamic block, the second and later ones included, the
\* code-length vector holds, when it has been read, the HCLEN + 4 values of
\* this block at their permuted positions and 0 everywhere else.
C15_CLenVectorFresh ==
    [][\A p \in Procs :
         /\ pc[p] \in {"dynamic", "dynamicA"} /\ pc'[p] # pc[p]
         /\ 257 + hlit'[p] <= LLLEN
         => \A l \in {gz_readbits(ins[p], input[p], 5)} :
            \A d \in {gz_readbits(l.s, input[p], 5)} :
            \A c \in {gz_readbits(d.s, input[p], 4)} :
                arrclen'[p] = ReadCLenLoop([i |-> 0, arrclen |-> ZeroArray(MAXCLEN),
                                            s |-> c.s], input[p], 0, c.v + 3).arrclen]_vars

\* the vector, the tree array and the htmax of the call of gz_buildht that
\* call p makes under SpecBuild
BuildVec(p) ==
    IF tc[p].fam = "clen" THEN arrclen[p]
    ELSE IF tc[p].fam = "ll" THEN arrll[p] ELSE arrdist[p]

BuildTree(p) ==
    IF tc[p].fam = "clen" THEN gz_htclen_
    ELSE IF tc[p].fam = "ll" THEN gz_htll_ ELSE gz_htdist_

BuildMax(p) ==
    IF tc[p].fam = "clen" THEN GZ_HTCLEN_MAX
    ELSE IF tc[p].fam = "ll" THEN GZ_HTLL_MAX ELSE GZ_HTDIST_MAX

\* C16: in every tree gz_buildht returns as built no leaf has a child and
\* every symbol with a code is at exactly one node (a vector that would put
\* a symbol on an interior node, or below a leaf, is refused).
C16_BuiltTreeIsPrefixCode ==
    \A p \in Procs :
        pc[p] = "built"
            => /\ \A n \in 1..Len(BuildTree(p)) :
                      BuildTree(p)[n].code >= 0
                          => BuildTree(p)[n].zero = 0 /\ BuildTree(p)[n].one = 0
               /\ \A k \in 1..Len(BuildVec(p)) :
                      BuildVec(p)[k] > 0
                          => Cardinality({n \in 1..Len(BuildTree(p)) :
                                             BuildTree(p)[n].code = k - 1}) = 1

RECURSIVE KraftSum(_, _, _)
\* the sum of 2^(15 - cl[k]) over the symbols lo..hi that have a code
KraftSum(cl, lo, hi) ==
    IF lo = hi THEN (IF cl[lo] > 0 THEN Pow2(15 - cl[lo]) ELSE 0)
    ELSE KraftSum(cl, lo, (lo + hi) \div 2) + KraftSum(cl, (lo + hi) \div 2 + 1, hi)

\* lengths in 0..15 that satisfy the Kraft inequality
Kraft(cl) ==
    /\ \A k \in 1..Len(cl) : cl[k] \in 0..15
    /\ KraftSum(cl, 1, Len(cl)) <= Pow2(15)

RECURSIVE RfcNextCode(_, _)
\* RFC 1951 3.2.2: next_code[b], with bl_count[0] = 0
RfcNextCode(cl, b) ==
    IF b <= 1 THEN 0
    ELSE 2 * (RfcNextCode(cl, b - 1)
              + Cardinality({k \in 1..Len(cl) : cl[k] = b - 1}))

\* RFC 1951 3.2.2: the code of symbol k - 1, of cl[k] bits
RfcCode(cl, k) ==
    RfcNextCode(cl, cl[k]) + Cardinality({j \in 1..(k - 1) : cl[j] = cl[k]})

RECURSIVE TreeWalk(_, _, _, _)
\* the node reached from node n along the low `bits` bits of code, most
\* significant first; -1 when a child is missing on the way
TreeWalk(ht, n, code, bits) ==
    IF bits = 0 THEN n
    ELSE LET child == IF (code \div Pow2(bits - 1)) % 2 = 1 THEN ht[n + 1].one
                      ELSE ht[n + 1].zero
         IN  IF child = 0 THEN -1 ELSE TreeWalk(ht, child, code, bits - 1)

\* the symbol of the leaf at the end of that path: -1 when the path does
\* not end on a childless node
LeafAt(ht, code, bits) ==
    With(TreeWalk(ht, 0, code, bits), LAMBDA n :
    IF n < 0 THEN -1
    ELSE IF ht[n + 1].zero # 0 \/ ht[n + 1].one # 0 THEN -1
    ELSE ht[n + 1].code)

\* C17: for a vector of lengths in 0..15 that satisfies the Kraft
\* inequality, absent symbols included, the tree gz_buildht has built holds
\* each symbol that has a code at the leaf whose path from the root is its
\* canonical code of RFC 1951 3.2.2, most significant bit first.
C17_CanonicalCodes ==
    \A p \in Procs :
        pc[p] = "built" /\ Kraft(BuildVec(p))
            => \A k \in 1..Len(BuildVec(p)) :
                   BuildVec(p)[k] > 0
                       => LeafAt(BuildTree(p), RfcCode(BuildVec(p), k),
                                 BuildVec(p)[k]) = k - 1

\* C17 happens: a tree is built for a Kraft vector with an absent symbol
\* between symbols of two different lengths and a symbol of length 15
C17_Witness ==
    \E p \in Procs :
        /\ pc[p] = "built" /\ Kraft(BuildVec(p))
        /\ BuildVec(p)[1] > 0 /\ BuildVec(p)[2] = 0
        /\ BuildVec(p)[3] > BuildVec(p)[1]
        /\ BuildVec(p)[Len(BuildVec(p))] = 15

\* the nodes a tree of the codes of cl is made of: the root and one node for
\* every prefix of the low cl[k] bits of the code of a symbol
NodesNeeded(cl) ==
    Cardinality({<<0, 0>>} \cup
                UNION {With(RfcCode(cl, k) % Pow2(cl[k]), LAMBDA c :
                       {<<d, c \div Pow2(cl[k] - d)>> : d \in 0..cl[k]})
                       : k \in {j \in 1..Len(cl) : cl[j] > 0}})

\* C18: the nodes gz_buildht has taken from a tree array are never more
\* than the array holds, 2A - 1 for the alphabet size A (575, 63, 37), and
\* no tree is built for a vector whose codes need more nodes.
C18_NodesWithinArray ==
    /\ Len(gz_htclen_) <= 2 * GZ_CLEN_MAX - 1
    /\ Len(gz_htll_) <= 2 * GZ_LL_MAX - 1
    /\ Len(gz_htdist_) <= 2 * GZ_DIST_MAX - 1
    /\ \A p \in Procs :
           pc[p] = "built" => NodesNeeded(BuildVec(p)) <= BuildMax(p)

\* C18 happens: gz_buildht has taken every node of the array for a vector
\* whose codes need more and has returned 0
C18_Witness ==
    \E p \in Procs :
        /\ pc[p] = "nobuild" /\ Kraft(BuildVec(p))
        /\ NodesNeeded(BuildVec(p)) > BuildMax(p)
        /\ Len(BuildTree(p)) = BuildMax(p)

\* bit m of the stream of an input: bit (m mod 8) of byte (m div 8), and 0
\* beyond the last byte
StreamBit(inp, m) ==
    IF m < 8 * Len(inp) THEN (inp[m \div 8 + 1] \div Pow2(m % 8)) % 2 ELSE 0

\* C19: after any calls of gz_readbits, bit i of the result of the last
\* one, of width n, is the stream bit at the number of bits asked for
\* before plus i, the result is below 2^n, the byte held is a byte of the
\* input, and once all bits of the input have been asked for the end flag
\* is set.
C19_ReadBitsInOrder ==
    \A p \in Procs :
        tc[p].fam = "bits"
            => /\ tc[p].v \in 0..(Pow2(tc[p].n) - 1)
               /\ \A i \in 0..(tc[p].n - 1) :
                      (tc[p].v \div Pow2(i)) % 2 = StreamBit(input[p], tc[p].from + i)
               /\ ins[p].ptr \in 1..Len(input[p])
               /\ ins[p].buf = input[p][ins[p].ptr]
               /\ (tc[p].from + tc[p].n >= 8 * Len(input[p]) <=> ins[p].end = 1)

\* C19 happens: a call of width 16 has started inside the last byte, taken
\* a set bit from it and run past the end of the input
C19_Witness ==
    \E p \in Procs :
        /\ tc[p].fam = "bits" /\ tc[p].n = 16 /\ tc[p].v > 0
        /\ tc[p].from % 8 # 0
        /\ tc[p].from < 8 * Len(input[p])
        /\ tc[p].from + tc[p].n > 8 * Len(input[p])
        /\ ins[p].end = 1

\* the code-length symbols that call p is about to decode take the number
\* of lengths past the target, 257 + HLIT or 1 + HDIST
RunsPast(p) ==
    IF pc[p] = "dynll"
    THEN gz_gethufft(ins[p], input[p], 257 + hlit[p], LLLEN, gz_htclen_, gz_htll_,
                     GZ_HTLL_MAX).i > 257 + hlit[p]
    ELSE IF pc[p] = "dyndist"
    THEN gz_gethufft(ins[p], input[p], 1 + hdist[p], DISTLEN, gz_htclen_, gz_htdist_,
                     GZ_HTDIST_MAX).i > 1 + hdist[p]
    ELSE IF pc[p] = "dynllA"
    THEN gz_gethufftA(ins[p], input[p], 257 + hlit[p], LLLEN, hts[p].clen).i
             > 257 + hlit[p]
    ELSE IF pc[p] = "dyndistA"
    THEN gz_gethufftA(ins[p], input[p], 1 + hdist[p], DISTLEN, hts[p].clen).i
             > 1 + hdist[p]
    ELSE FALSE

\* C20: when the code-length symbols of a dynamic block take the number of
\* decoded lengths past the target, gz_gethufft fails and gzdec returns
\* GZ_INVFILE.
C20_OverrunRejected ==
    [][\A p \in Procs :
         RunsPast(p) /\ pc'[p] # pc[p]
             => pc'[p] = "done" /\ status'[p] = GZ_INVFILE]_vars

\* the number of code lengths that the gz_gethufft call which p is about to
\* make stores by lengths[i++] = val, the first at index 0; 0 when p is not
\* about to call gz_gethufft
LengthsStored(p) ==
    IF pc[p] = "dynll"
    THEN gz_gethufft(ins[p], input[p], 257 + hlit[p], LLLEN, gz_htclen_, gz_htll_,
                     GZ_HTLL_MAX).i
    ELSE IF pc[p] = "dyndist"
    THEN gz_gethufft(ins[p], input[p], 1 + hdist[p], DISTLEN, gz_htclen_, gz_htdist_,
                     GZ_HTDIST_MAX).i
    ELSE IF pc[p] = "dynllA"
    THEN gz_gethufftA(ins[p], input[p], 257 + hlit[p], LLLEN, hts[p].clen).i
    ELSE IF pc[p] = "dyndistA"
    THEN gz_gethufftA(ins[p], input[p], 1 + hdist[p], DISTLEN, hts[p].clen).i
    ELSE 0

\* the size of the array that call is given
LengthsSize(p) == IF pc[p] \in {"dynll", "dynllA"} THEN LLLEN ELSE DISTLEN

\* C21: gz_gethufft never stores a code length at an index >= maxcount of
\* the array it is given (288 entries for literal/length, 32 for distance),
\* whatever the input bits, a repeat symbol with fewer positions left than
\* its repeat count included.
C21_StoresWithinArray ==
    [][\A p \in Procs :
         pc'[p] # pc[p] => LengthsStored(p) <= LengthsSize(p)]_vars

\* C6: every call of gzdec, of either variant, returns.
C6_Terminates ==
    \A p \in Procs : pc[p] \notin {"idle", "done"} ~> pc[p] = "done"

====
